---- MODULE Spec2Model ----
(***************************************************************************)
(* Model of the incremental collection engine of the job-advertisement     *)
(* scrapers: the Gumtree batch run (gumtree_scraper.scrape_gumtree_batch_  *)
(* mode), its detail-fetch tasks and semaphore, and the CSV persistence    *)
(* store (gumtree_scraper.append_to_csv); and the batch engine of the OLX   *)
(* scraper (simple_scraper.scrape_jobs_in_batches) with its jobs.csv.      *)
(*                                                                         *)
(* Specifications:                                                         *)
(*   Spec         one run of scrape_gumtree_batch_mode, target given       *)
(*   SpecAppend   append_to_csv applied to enumerated files and batches    *)
(*   SpecRerun    two runs in sequence against an unchanging site          *)
(*   SpecOlx      scrape_jobs_in_batches and the jobs.csv it writes        *)
(*   SpecExample  the run of the example: two records, target 5            *)
(*   SpecDefault  one run with the target read from jobs.csv               *)
(*   SpecSteps    append_to_csv, one file operation at a time               *)
(*   SpecAbort    one run in which append_to_csv may raise                  *)
(*   SpecClean    clean_errors.clean_403_errors                             *)
(*   SpecAudit    check_uniqueness on enumerated files                      *)
(***************************************************************************)
EXTENDS Integers, Sequences, FiniteSets, TLC

(***************************************************************************)
(* Bounds of the model                                                     *)
(***************************************************************************)
\* number of distinct job identities the listing source can show
NumIds == 2
\* longest listing page the source returns (besides the two long pages)
MaxLinks == 1
\* the run is followed up to this page index
MaxPages == 2
\* largest target_count a run is started with
MaxTarget == 2
\* largest concurrency a run is started with
MaxConcurrency == 1
\* SpecAppend: longest file (in lines) and longest batch that are enumerated
MaxFileLines == 2
MaxBatch == 2
\* SpecAppend: number of consecutive append_to_csv calls that are followed
MaxAppends == 2
\* the links one call of scrape_jobs_in_batches is given, at most
MaxOlxLinks == 3
\* the batch_size of scrape_jobs_in_batches, at most
MaxBatchSize == 2

\* the listing pages of a run that is checked for the settling of its batches
MaxFairPages == 1
\* the lines of a file that clean_403_errors is run on
MaxCleanLines == 3
\* the rows of a file that check_uniqueness is run on, at most
MaxAuditRows == 3

(***************************************************************************)
(* Program constants                                                       *)
(***************************************************************************)
\* fingerprint = tuple(page_ids[:10])
FingerprintLen == 10
\* return 1321: the target when jobs.csv is missing
DefaultTarget == 1321

Ids == 1..NumIds

(***************************************************************************)
(* URLs.  A URL is the sequence of its path segments; segment 0 is the     *)
(* empty segment that a trailing "/" leaves, negative segments are fixed   *)
(* path words (-1 = "jobs", -2 = "p", -3 = "url"), positive segments are   *)
(* job numbers.                                                            *)
(***************************************************************************)
RECURSIVE rstrip_slash(_)
rstrip_slash(url) ==
    IF url # <<>> /\ url[Len(url)] = 0
    THEN rstrip_slash(SubSeq(url, 1, Len(url) - 1))
    ELSE url

\* url.rstrip("/").split("/")[-1]
job_id_from_url(url) ==
    LET u == rstrip_slash(url) IN u[Len(u)]

\* the candidate URLs a listing page can hold: one canonical URL per identity
\* and, for identity 1, a second URL with another path and a trailing slash
Urls == {<<-1, i>> : i \in Ids} \cup {<<-2, 1, 0>>}

(***************************************************************************)
(* build_listing_urls: the listing URLs of one page index, in the order    *)
(* they are tried.  A listing URL is the base with a path suffix /pageN    *)
(* (path = N, 0 for none) and a query ?page=N (page = N, 0 for none).      *)
(***************************************************************************)
\* faulty variant: the query-style URL comes first
build_listing_urls_query_first(page_num) ==
    << [path |-> 0, page |-> page_num],
       [path |-> IF page_num = 1 THEN 0 ELSE page_num, page |-> 0] >>

build_listing_urls(page_num) ==
    << [path |-> IF page_num = 1 THEN 0 ELSE page_num, page |-> 0],
       [path |-> 0, page |-> page_num] >>

(***************************************************************************)
(* Titles                                                                  *)
(***************************************************************************)
Denied == "403 ERROR"
Titles == {"Cleaner", "", Denied}

(***************************************************************************)
(* File content.  A file is [exists, content]; content is a sequence of    *)
(* tokens.  A token is a piece of text without line break (the canonical   *)
(* header text, a record's CSV text, some other text), or a line           *)
(* terminator, "\r\n" or "\n".                                             *)
(***************************************************************************)
HeaderText == [k |-> "hdr", url |-> <<-3>>, title |-> "title"]
OtherText  == [k |-> "txt", url |-> <<>>, title |-> ""]
CRLF       == [k |-> "nl", url |-> <<>>, title |-> "CRLF"]
LF         == [k |-> "nl", url |-> <<>>, title |-> "LF"]
RowText(url, title) == [k |-> "row", url |-> url, title |-> title]

IsNl(t) == t.k = "nl"

NoFile == [exists |-> FALSE, content |-> <<>>]
FileOf(content) == [exists |-> TRUE, content |-> content]

\* text-mode read (newline=None): "\r\n" is translated to "\n"
RECURSIVE read_text(_)
read_text(content) ==
    IF content = <<>> THEN <<>>
    ELSE <<IF IsNl(Head(content)) THEN LF ELSE Head(content)>>
         \o read_text(Tail(content))

\* f.readline(): the text up to and including the first line terminator
RECURSIVE readline(_)
readline(text) ==
    IF text = <<>> THEN <<>>
    ELSE IF IsNl(Head(text)) THEN <<Head(text)>>
    ELSE <<Head(text)>> \o readline(Tail(text))

\* str.strip() of a line: the line terminator at its end goes
strip(line) ==
    IF line # <<>> /\ IsNl(line[Len(line)])
    THEN SubSeq(line, 1, Len(line) - 1)
    ELSE line

\* the lines of a text, without their terminators; a last line that is not
\* terminated is a line too
RECURSIVE SplitLines(_, _)
SplitLines(text, cur) ==
    IF text = <<>> THEN (IF cur = <<>> THEN <<>> ELSE <<cur>>)
    ELSE IF IsNl(Head(text)) THEN <<cur>> \o SplitLines(Tail(text), <<>>)
    ELSE SplitLines(Tail(text), Append(cur, Head(text)))

Lines(content) == SplitLines(content, <<>>)

\* csv.DictWriter.writeheader(): the header line, terminated by "\r\n"
writeheader == <<HeaderText, CRLF>>

\* csv.DictWriter.writerow(ordered_job): one record's line, terminated by "\r\n"
writerow(job) == <<RowText(job.url, job.title), CRLF>>

RECURSIVE writerows(_)
writerows(jobs) ==
    IF jobs = <<>> THEN <<>>
    ELSE writerow(Head(jobs)) \o writerows(Tail(jobs))

\* first_line = f.readline().strip()
first_line(f) == strip(readline(read_text(f.content)))

\* faulty variant: the backfill writes the header and forgets the existing content
backfilled_header_only(f) == writeheader

\* the file after the header backfill: header, then f.read() of the old file
backfilled(f) == writeheader \o read_text(f.content)

\* append_to_csv(new_jobs, filename): the file it leaves
append_to_csv(new_jobs, f) ==
    IF new_jobs = <<>> THEN f
    ELSE LET file_exists == f.exists
             checked == IF file_exists /\ first_line(f) # <<HeaderText>>
                        THEN backfilled(f)
                        ELSE f.content
         IN FileOf(checked
                   \o (IF ~file_exists THEN writeheader ELSE <<>>)
                   \o writerows(new_jobs))

\* simple_scraper.save_to_csv(jobs, mode): open('jobs.csv', mode) truncates
\* with 'w' and appends with 'a'; the header is written only if mode == 'w'
olx_save_to_csv(jobs, mode, f) ==
    FileOf((IF mode = "w" THEN writeheader ELSE f.content) \o writerows(jobs))

\* simple_scraper.append_to_csv(new_jobs)
olx_append_to_csv(new_jobs, f) ==
    IF new_jobs # <<>> THEN olx_save_to_csv(new_jobs, "a", f) ELSE f

(***************************************************************************)
(* csv.DictReader over a dataset file.  The first non-blank line gives the *)
(* field names; every later non-blank line is a row.  row.get('url') and   *)
(* row.get('title') find a value only when the field-name line starts with *)
(* the header text (then 'url' and 'title' are its 2nd and 3rd names); the *)
(* values are those of the text the line starts with.  With any other      *)
(* first line both are None.                                               *)
(***************************************************************************)
NonBlank(lines) == SelectSeq(lines, LAMBDA l : l # <<>>)

DictRows(f) ==
    LET ls == NonBlank(Lines(read_text(f.content)))
    IN IF ls = <<>> THEN <<>>
       ELSE [i \in 1..(Len(ls) - 1) |->
               IF ls[1][1].k = "hdr"
               THEN [url |-> ls[i + 1][1].url, title |-> ls[i + 1][1].title]
               ELSE [url |-> <<>>, title |-> ""]]

\* faulty variant: the dataset is not read, the index starts empty
load_existing_gumtree_jobs_none(f) == {}

\* load_existing_gumtree_jobs(): the identities of the rows that have a url
load_existing_gumtree_jobs(f) ==
    IF ~f.exists THEN {}
    ELSE LET rows == DictRows(f)
         IN {job_id_from_url(rows[i].url) :
               i \in {j \in 1..Len(rows) : rows[j].url # <<>>}}

\* count_existing_gumtree_jobs(): rows with a title that is not '403 ERROR'
count_existing_gumtree_jobs(f) ==
    IF ~f.exists THEN 0
    ELSE LET rows == DictRows(f)
         IN Cardinality({j \in 1..Len(rows) :
                           rows[j].title # "" /\ rows[j].title # Denied})

\* faulty variant: a missing jobs.csv gives the target 0
get_target_count_missing_zero(f) ==
    IF ~f.exists THEN 0
    ELSE LET rows == DictRows(f)
         IN Cardinality({j \in 1..Len(rows) :
                           rows[j].title # "" /\ rows[j].title # Denied})

\* get_target_count_from_jobs_csv(): the rows of jobs.csv with a title that
\* is not '403 ERROR'; 1321 when there is no jobs.csv
get_target_count_from_jobs_csv(f) ==
    IF ~f.exists THEN DefaultTarget
    ELSE LET rows == DictRows(f)
         IN Cardinality({j \in 1..Len(rows) :
                           rows[j].title # "" /\ rows[j].title # Denied})

(***************************************************************************)
(* The listing source                                                      *)
(***************************************************************************)
SeqsUpTo(S, n) == UNION {[1..m -> S] : m \in 0..n}

\* two pages that agree on their first FingerprintLen links and differ after
LongPageA == [i \in 1..(FingerprintLen + 1) |->
                IF i <= FingerprintLen THEN <<-1, 1>> ELSE <<-1, NumIds>>]
LongPageB == [i \in 1..FingerprintLen |-> <<-1, 1>>]

\* what collect_links_from_listing can return for one listing URL
ListingPages == SeqsUpTo(Urls, MaxLinks) \cup {LongPageA, LongPageB}

\* None, the value of last_fingerprint before the first page
None == <<0>>

Take(s, n) == SubSeq(s, 1, IF n < Len(s) THEN n ELSE Len(s))

\* page_ids = [job_id_from_url(x["url"]) for x in listing_links if x.get("url")]
page_ids_of(listing_links) ==
    LET withUrl == SelectSeq(listing_links, LAMBDA u : u # <<>>)
    IN [i \in 1..Len(withUrl) |-> job_id_from_url(withUrl[i])]

\* faulty variant: the whole page is the fingerprint
fingerprint_whole_page(listing_links) == page_ids_of(listing_links)

\* fingerprint = tuple(page_ids[:10])
fingerprint_of(listing_links) == Take(page_ids_of(listing_links), FingerprintLen)

\* faulty variant: only the first accepted candidate is added to the tracking
\* set
RECURSIVE find_new_links_marks_first(_, _, _)
find_new_links_marks_first(listing_links, ids, new_links) ==
    IF listing_links = <<>> THEN [new_links |-> new_links, ids |-> ids]
    ELSE LET url == Head(listing_links)
             job_id == job_id_from_url(url)
         IN IF job_id \in ids
            THEN find_new_links_marks_first(Tail(listing_links), ids, new_links)
            ELSE find_new_links_marks_first(
                    Tail(listing_links),
                    IF new_links = <<>> THEN ids \cup {job_id} ELSE ids,
                    Append(new_links, url))

\* faulty variant: an accepted candidate is not added to the tracking set
RECURSIVE find_new_links_no_mark(_, _, _)
find_new_links_no_mark(listing_links, ids, new_links) ==
    IF listing_links = <<>> THEN [new_links |-> new_links, ids |-> ids]
    ELSE LET url == Head(listing_links)
             job_id == job_id_from_url(url)
         IN IF job_id \in ids
            THEN find_new_links_no_mark(Tail(listing_links), ids, new_links)
            ELSE find_new_links_no_mark(Tail(listing_links), ids,
                                        Append(new_links, url))

\* the loop over listing_links: a candidate whose identity is not in
\* existing_gumtree_ids is appended to new_links and its identity added at once
RECURSIVE find_new_links(_, _, _)
find_new_links(listing_links, ids, new_links) ==
    IF listing_links = <<>> THEN [new_links |-> new_links, ids |-> ids]
    ELSE LET url == Head(listing_links)
             job_id == job_id_from_url(url)
         IN IF job_id \in ids
            THEN find_new_links(Tail(listing_links), ids, new_links)
            ELSE find_new_links(Tail(listing_links), ids \cup {job_id},
                                Append(new_links, url))

\* faulty variant: the batch is not cut to what is still needed
truncate_none(new_links, remaining_needed) == new_links

\* jobs_to_scrape = new_links[:remaining_needed], with remaining_needed > 0
truncate(new_links, remaining_needed) == Take(new_links, remaining_needed)

(***************************************************************************)
(* State                                                                   *)
(***************************************************************************)
VARIABLES
    file,                   \* gumtree_jobs.csv
    target_count,           \* the target of the run
    concurrency,            \* the concurrency the run was called with
    semaphore,              \* free permits of asyncio.Semaphore(concurrency)
    existing_gumtree_ids,   \* the deduplication index
    existing_count_in_file, \* count_existing_gumtree_jobs() at startup
    total_scraped,
    all_collected_jobs,     \* the records accepted in this run, in order
    page_num,
    last_fingerprint,
    pc,                     \* where the driving flow is
    url_idx,                \* which URL of build_listing_urls is being fetched
    jobs_to_scrape,         \* the batch launched from the current page
    tasks,                  \* the fetch tasks of the batch in flight
    start_file,             \* history: the file at startup
    page_links,             \* history: the links of the latest page with links
    prev_page_links,        \* history: the links of the page before that one
    seen_page,              \* history: the page index page_links came from
    scheduled,              \* history: every URL handed to a fetch task
    failed_in_batch,        \* history: fetches of the latest batch that gave None
    new_jobs,               \* the batch of the latest append_to_csv call
    n_appends,              \* history: number of append_to_csv calls that wrote
    jobs_csv,               \* jobs.csv, the dataset of simple_scraper
    source,                 \* the listing source: the links of every page
    detail,                 \* the detail pages: what a fetch of each URL gives
    run,                    \* which run of scrape_gumtree_batch_mode this is
    links,                  \* scrape_jobs_in_batches: its argument links
    batch_size,             \* scrape_jobs_in_batches: its argument batch_size
    batch_index,            \* scrape_jobs_in_batches: i, where the batch starts
    all_jobs,               \* scrape_jobs_in_batches: all_jobs
    stopped_by,             \* which break left the while loop ("" before)
    call                    \* the call that is taken one operation at a time:
                            \* op, the operation that is next, the locals of
                            \* the call and the files it makes

vars == <<file, target_count, concurrency, semaphore, existing_gumtree_ids,
          existing_count_in_file, total_scraped, all_collected_jobs, page_num,
          last_fingerprint, pc, url_idx, jobs_to_scrape, tasks, start_file,
          page_links, prev_page_links, seen_page, scheduled, failed_in_batch,
          new_jobs, n_appends, jobs_csv, source, detail, run, links,
          batch_size, batch_index, all_jobs, stopped_by, call>>

\* the variables of a sequence of two runs against one listing source
rerun_vars == <<source, detail, run>>

\* the variables of simple_scraper
olx_vars == <<jobs_csv, links, batch_size, batch_index, all_jobs>>

\* the operation of the call that is next
op == call.op

\* append_to_csv: existing_content, file_exists, and how many of new_jobs the
\* for loop has written
existing_content == call.existing_content
file_exists == call.file_exists
written == call.written

\* clean_403_errors: its argument backup, the copy shutil.copy2 made, and
\* clean_records
backup == call.backup
backup_file == call.backup_file
clean_records == call.clean_records

\* check_uniqueness: the file that is analysed, what analyze_uniqueness
\* returned, and duplicates_report.csv
input_file == call.input_file
analysis == call.analysis
report == call.report

\* what analyze_uniqueness has returned before it was called, and the report
\* before it is written
NoAnalysis ==
    [done |-> FALSE, total_records |-> 0, valid_records |-> 0,
     error_records |-> 0, duplicates |-> <<>>]
NoReport == [written |-> FALSE, lines |-> <<>>]

\* no call is in progress
NoCall == [op |-> "none"]

\* a call of append_to_csv that begins
AppendBegins ==
    [op |-> "begin", existing_content |-> <<>>, file_exists |-> FALSE,
     written |-> 0]

step_vars == <<call>>

\* a specification of a single gumtree run takes append_to_csv as one step
NoSteps == call = NoCall
NoRerun == source = <<>> /\ detail = <<>> /\ run = 1
NoOlx ==
    /\ jobs_csv = NoFile
    /\ links = <<>>
    /\ batch_size = 1
    /\ batch_index = 0
    /\ all_jobs = <<>>

\* for candidate in build_listing_urls(base_url, page_num): the listing URL
\* that is being requested
candidate == build_listing_urls(page_num)[url_idx]

\* target_count - (existing_count_in_file + total_scraped)
remaining == target_count - (existing_count_in_file + total_scraped)

\* (existing_count_in_file + total_scraped) >= target_count
satisfied == (existing_count_in_file + total_scraped) >= target_count

(***************************************************************************)
(* The datasets a run is started on: no file; a file as append_to_csv      *)
(* leaves it (header, rows, "\r\n" after every line), with a valid row, a  *)
(* denied row, two valid rows; a headerless file; a file whose last line   *)
(* is not terminated.                                                      *)
(***************************************************************************)
Job(url, title) == [url |-> url, title |-> title]

StartFiles ==
    { NoFile,
      FileOf(writeheader),
      FileOf(writeheader \o writerow(Job(<<-1, 1>>, "Cleaner"))),
      FileOf(writeheader \o writerow(Job(<<-1, 1>>, Denied))),
      FileOf(writeheader \o writerow(Job(<<-1, 1>>, "Cleaner"))
                         \o writerow(Job(<<-1, NumIds + 1>>, "Cleaner"))),
      FileOf(writerow(Job(<<-1, 1>>, "Cleaner"))),
      FileOf(writeheader \o <<RowText(<<-1, 1>>, "Cleaner")>>) }

(***************************************************************************)
(* scrape_gumtree_batch_mode: the state when the while loop is entered     *)
(***************************************************************************)
\* a run on dataset f with target_count target and concurrency c
StartOfRun(f, target, c) ==
    /\ file = f
    /\ start_file = f
    /\ target_count = target
    /\ concurrency = c
    /\ semaphore = c
    /\ existing_gumtree_ids = load_existing_gumtree_jobs(f)
    /\ existing_count_in_file = count_existing_gumtree_jobs(f)
    /\ total_scraped = 0
    /\ all_collected_jobs = <<>>
    /\ page_num = 1
    /\ last_fingerprint = None
    /\ pc = "loop"
    /\ url_idx = 1
    /\ jobs_to_scrape = <<>>
    /\ tasks = <<>>
    /\ page_links = <<>>
    /\ prev_page_links = <<>>
    /\ seen_page = 0
    /\ scheduled = <<>>
    /\ failed_in_batch = 0
    /\ new_jobs = <<>>
    /\ n_appends = 0
    /\ stopped_by = ""

Init ==
    /\ \E f \in StartFiles, target \in 0..MaxTarget, c \in 0..MaxConcurrency :
          StartOfRun(f, target, c)
    /\ NoRerun
    /\ NoSteps
    /\ NoOlx

\* if target_count and (existing_count_in_file + total_scraped) >= target_count
target_reached_before_page == target_count # 0 /\ satisfied

\* top of the while loop, target reached: break
TargetReached ==
    /\ pc = "loop"
    /\ UNCHANGED <<rerun_vars, olx_vars, step_vars>>
    /\ target_reached_before_page
    /\ pc' = "done"
    /\ stopped_by' = "target"
    /\ UNCHANGED <<file, target_count, concurrency, semaphore,
                   existing_gumtree_ids, existing_count_in_file, total_scraped,
                   all_collected_jobs, page_num, last_fingerprint, url_idx,
                   jobs_to_scrape, tasks, start_file, page_links,
                   prev_page_links, seen_page, scheduled, failed_in_batch,
                   new_jobs, n_appends>>

\* top of the while loop, target not reached: the first URL of
\* build_listing_urls(base_url, page_num) is requested
RequestListing ==
    /\ pc = "loop"
    /\ UNCHANGED <<rerun_vars, olx_vars, step_vars>>
    /\ ~target_reached_before_page
    /\ page_num <= MaxPages
    /\ pc' = "goto"
    /\ url_idx' = 1
    /\ jobs_to_scrape' = <<>>
    /\ stopped_by' = stopped_by
    /\ UNCHANGED <<file, target_count, concurrency, semaphore,
                   existing_gumtree_ids, existing_count_in_file, total_scraped,
                   all_collected_jobs, page_num, last_fingerprint, tasks,
                   start_file, page_links, prev_page_links, seen_page,
                   scheduled, failed_in_batch, new_jobs, n_appends>>

\* faulty variant: after the error the walk goes on with the next page
ListingError_next_page ==
    /\ pc = "goto"
    /\ UNCHANGED <<rerun_vars, olx_vars, step_vars>>
    /\ pc' = "loop"
    /\ page_num' = page_num + 1
    /\ stopped_by' = "error"
    /\ UNCHANGED <<file, target_count, concurrency, semaphore,
                   existing_gumtree_ids, existing_count_in_file, total_scraped,
                   all_collected_jobs, last_fingerprint, url_idx,
                   jobs_to_scrape, tasks, start_file, page_links,
                   prev_page_links, seen_page, scheduled, failed_in_batch,
                   new_jobs, n_appends>>

\* listing_page.goto or collect_links_from_listing raises: except, break
ListingError ==
    /\ pc = "goto"
    /\ UNCHANGED <<rerun_vars, olx_vars, step_vars>>
    /\ pc' = "done"
    /\ stopped_by' = "error"
    /\ UNCHANGED <<file, target_count, concurrency, semaphore,
                   existing_gumtree_ids, existing_count_in_file, total_scraped,
                   all_collected_jobs, page_num, last_fingerprint, url_idx,
                   jobs_to_scrape, tasks, start_file, page_links,
                   prev_page_links, seen_page, scheduled, failed_in_batch,
                   new_jobs, n_appends>>

\* the URL yields no links: the fallback URL is requested next, and after the
\* fallback the walk stops
ListingEmpty ==
    /\ pc = "goto"
    /\ UNCHANGED <<rerun_vars, olx_vars, step_vars>>
    /\ IF url_idx < Len(build_listing_urls(page_num))
       THEN pc' = "goto" /\ url_idx' = url_idx + 1 /\ stopped_by' = stopped_by
       ELSE pc' = "done" /\ url_idx' = url_idx /\ stopped_by' = "no_listings"
    /\ UNCHANGED <<file, target_count, concurrency, semaphore,
                   existing_gumtree_ids, existing_count_in_file, total_scraped,
                   all_collected_jobs, page_num, last_fingerprint,
                   jobs_to_scrape, tasks, start_file, page_links,
                   prev_page_links, seen_page, scheduled, failed_in_batch,
                   new_jobs, n_appends>>

\* the fetch tasks created for jobs_to_scrape, none started yet
new_tasks(urls) ==
    [i \in 1..Len(urls) |-> [url |-> urls[i], st |-> "wait", title |-> ""]]

\* if fingerprint == last_fingerprint and page_num > 1
pagination_stuck(fingerprint) ==
    fingerprint = last_fingerprint /\ page_num > 1

\* the end of a page's work: the target check after the batch, then either
\* break or page_num += 1
AfterPage(total) ==
    IF (existing_count_in_file + total) >= target_count
    THEN pc' = "done" /\ page_num' = page_num /\ stopped_by' = "target"
    ELSE pc' = "loop" /\ page_num' = page_num + 1 /\ stopped_by' = stopped_by

\* the URL yields links: loop detection, deduplication, truncation to what is
\* still needed, launch of the fetch tasks
ListingLinks(listing_links) ==
    /\ pc = "goto"
    /\ UNCHANGED <<rerun_vars, olx_vars, step_vars>>
    /\ listing_links # <<>>
    /\ page_links' = listing_links
    /\ prev_page_links' = page_links
    /\ seen_page' = page_num
    /\ LET fingerprint == fingerprint_of(listing_links)
           found == find_new_links(listing_links, existing_gumtree_ids, <<>>)
           remaining_needed == target_count - (existing_count_in_file + total_scraped)
       IN IF pagination_stuck(fingerprint)
          THEN /\ pc' = "done"
               /\ stopped_by' = "stuck"
               /\ UNCHANGED <<last_fingerprint, existing_gumtree_ids,
                              jobs_to_scrape, tasks, scheduled, page_num>>
          ELSE /\ last_fingerprint' = fingerprint
               /\ existing_gumtree_ids' = found.ids
               /\ IF found.new_links = <<>>
                  THEN /\ AfterPage(total_scraped)
                       /\ UNCHANGED <<jobs_to_scrape, tasks, scheduled>>
                  ELSE IF remaining_needed <= 0
                  THEN /\ pc' = "done"
                       /\ stopped_by' = "target"
                       /\ UNCHANGED <<jobs_to_scrape, tasks, scheduled, page_num>>
                  ELSE /\ jobs_to_scrape' = truncate(found.new_links, remaining_needed)
                       /\ tasks' = new_tasks(jobs_to_scrape')
                       /\ scheduled' = scheduled \o jobs_to_scrape'
                       /\ pc' = "gather"
                       /\ page_num' = page_num
                       /\ stopped_by' = stopped_by
    /\ UNCHANGED <<file, target_count, concurrency, semaphore,
                   existing_count_in_file, total_scraped, all_collected_jobs,
                   url_idx, start_file, failed_in_batch, new_jobs, n_appends>>

(***************************************************************************)
(* scrape_single_job_gumtree: one fetch task                               *)
(***************************************************************************)
\* faulty variant: the semaphore lets every task in
can_acquire_always(value) == TRUE

\* asyncio.Semaphore.acquire proceeds only while the value is positive
can_acquire(value) == value > 0

\* async with semaphore: the task gets a permit
Acquire(i) ==
    /\ pc = "gather"
    /\ UNCHANGED <<rerun_vars, olx_vars, step_vars>>
    /\ tasks[i].st = "wait"
    /\ can_acquire(semaphore)
    /\ semaphore' = semaphore - 1
    /\ tasks' = [tasks EXCEPT ![i].st = "run"]
    /\ UNCHANGED <<file, target_count, concurrency, existing_gumtree_ids,
                   existing_count_in_file, total_scraped, all_collected_jobs,
                   page_num, last_fingerprint, pc, url_idx, jobs_to_scrape,
                   start_file, page_links, prev_page_links, seen_page,
                   scheduled, failed_in_batch, new_jobs, n_appends,
                   stopped_by>>

\* faulty variant: the task counts its own record when it returns
FetchReturns_counts(i, title) ==
    /\ pc = "gather"
    /\ UNCHANGED <<rerun_vars, olx_vars, step_vars>>
    /\ tasks[i].st = "run"
    /\ semaphore' = semaphore + 1
    /\ tasks' = [tasks EXCEPT ![i].st = "dict", ![i].title = title]
    /\ total_scraped' = total_scraped + 1
    /\ UNCHANGED <<file, target_count, concurrency, existing_gumtree_ids,
                   existing_count_in_file, all_collected_jobs,
                   page_num, last_fingerprint, pc, url_idx, jobs_to_scrape,
                   start_file, page_links, prev_page_links, seen_page,
                   scheduled, failed_in_batch, new_jobs, n_appends,
                   stopped_by>>

\* the task returns the dict of extract_job_data_gumtree, whose title is what
\* the page's h1 holds, and leaves the semaphore
FetchReturns(i, title) ==
    /\ pc = "gather"
    /\ UNCHANGED <<rerun_vars, olx_vars, step_vars>>
    /\ tasks[i].st = "run"
    /\ semaphore' = semaphore + 1
    /\ tasks' = [tasks EXCEPT ![i].st = "dict", ![i].title = title]
    /\ UNCHANGED <<file, target_count, concurrency, existing_gumtree_ids,
                   existing_count_in_file, total_scraped, all_collected_jobs,
                   page_num, last_fingerprint, pc, url_idx, jobs_to_scrape,
                   start_file, page_links, prev_page_links, seen_page,
                   scheduled, failed_in_batch, new_jobs, n_appends,
                   stopped_by>>

\* new_page, goto or wait_for_timeout raises: the task returns None and
\* leaves the semaphore
FetchFails(i) ==
    /\ pc = "gather"
    /\ UNCHANGED <<rerun_vars, olx_vars, step_vars>>
    /\ tasks[i].st = "run"
    /\ semaphore' = semaphore + 1
    /\ tasks' = [tasks EXCEPT ![i].st = "none"]
    /\ UNCHANGED <<file, target_count, concurrency, existing_gumtree_ids,
                   existing_count_in_file, total_scraped, all_collected_jobs,
                   page_num, last_fingerprint, pc, url_idx, jobs_to_scrape,
                   start_file, page_links, prev_page_links, seen_page,
                   scheduled, failed_in_batch, new_jobs, n_appends,
                   stopped_by>>

(***************************************************************************)
(* The batch has settled: results are collected, appended and counted      *)
(***************************************************************************)
settled(t) == t.st \in {"dict", "none"}

\* faulty variant: the first task that settles ends the wait
gather_done_on_first(ts) == \E i \in 1..Len(ts) : settled(ts[i])

\* asyncio.gather(*tasks, return_exceptions=True) returns when every task
\* has settled
gather_done(ts) == \A i \in 1..Len(ts) : settled(ts[i])

\* faulty variant: every dict is kept, whatever its title
valid_result_any_dict(t) == t.st = "dict"

\* isinstance(result, dict) and result and result.get('title')
valid_result(t) == t.st = "dict" /\ t.title # ""

\* batch_jobs: the valid results, in task order
batch_jobs_of(ts) ==
    LET ok == SelectSeq(ts, valid_result)
    IN [i \in 1..Len(ok) |-> Job(ok[i].url, ok[i].title)]

GatherDone ==
    /\ pc = "gather"
    /\ UNCHANGED <<rerun_vars, olx_vars, step_vars>>
    /\ gather_done(tasks)
    /\ LET batch_jobs == batch_jobs_of(tasks)
       IN /\ file' = append_to_csv(batch_jobs, file)
          /\ all_collected_jobs' = all_collected_jobs \o batch_jobs
          /\ total_scraped' = total_scraped + Len(batch_jobs)
          /\ new_jobs' = batch_jobs
          /\ n_appends' = IF batch_jobs # <<>> THEN n_appends + 1 ELSE n_appends
          /\ AfterPage(total_scraped + Len(batch_jobs))
    /\ failed_in_batch' = Cardinality({i \in 1..Len(tasks) : tasks[i].st = "none"})
    /\ tasks' = <<>>
    /\ UNCHANGED <<target_count, concurrency, semaphore, existing_gumtree_ids,
                   existing_count_in_file, last_fingerprint, url_idx,
                   jobs_to_scrape, start_file, page_links, prev_page_links,
                   seen_page, scheduled>>

Next ==
    \/ TargetReached
    \/ RequestListing
    \/ ListingError
    \/ ListingEmpty
    \/ \E listing_links \in ListingPages : ListingLinks(listing_links)
    \/ \E i \in 1..Len(tasks) : Acquire(i)
    \/ \E i \in 1..Len(tasks), title \in Titles : FetchReturns(i, title)
    \/ \E i \in 1..Len(tasks) : FetchFails(i)
    \/ GatherDone

Spec == Init /\ [][Next]_vars

(***************************************************************************)
(* SpecAppend: append_to_csv on enumerated files and batches               *)
(***************************************************************************)
\* the texts a line of an enumerated file holds
FileTexts == {HeaderText, OtherText, RowText(<<-1, 1>>, "Cleaner")}

TerminatedLines == {<<t, nl>> : t \in FileTexts, nl \in {CRLF, LF}}

\* the contents of n terminated lines
RECURSIVE ContentsOf(_)
ContentsOf(n) ==
    IF n = 0 THEN {<<>>}
    ELSE {c \o l : c \in ContentsOf(n - 1), l \in TerminatedLines}

\* no file, every file of at most MaxFileLines terminated lines, and every
\* such file whose last line has no terminator
AppendFiles ==
    {NoFile}
    \cup {FileOf(c) : c \in UNION {ContentsOf(n) : n \in 0..MaxFileLines}}
    \cup {FileOf(c \o <<t>>) :
            c \in UNION {ContentsOf(n) : n \in 0..(MaxFileLines - 1)},
            t \in FileTexts}

AppendJobs == {Job(<<-1, 1>>, "Cleaner"), Job(<<-1, 2>>, Denied)}
Batches == SeqsUpTo(AppendJobs, MaxBatch)

InitAppend ==
    /\ file \in AppendFiles
    /\ start_file = file
    /\ new_jobs = <<>>
    /\ n_appends = 0
    /\ stopped_by = ""
    /\ all_collected_jobs = <<>>
    /\ pc = "append"
    /\ target_count = 0
    /\ concurrency = 0
    /\ semaphore = 0
    /\ existing_gumtree_ids = {}
    /\ existing_count_in_file = 0
    /\ total_scraped = 0
    /\ page_num = 1
    /\ last_fingerprint = None
    /\ url_idx = 1
    /\ jobs_to_scrape = <<>>
    /\ tasks = <<>>
    /\ page_links = <<>>
    /\ prev_page_links = <<>>
    /\ seen_page = 0
    /\ scheduled = <<>>
    /\ failed_in_batch = 0
    /\ NoRerun
    /\ NoSteps
    /\ NoOlx

\* one call append_to_csv(batch); n_appends counts the calls, and
\* all_collected_jobs keeps the rows handed over so far
AppendCall(batch) ==
    /\ pc = "append"
    /\ UNCHANGED <<rerun_vars, olx_vars, step_vars>>
    /\ n_appends < MaxAppends
    /\ file' = append_to_csv(batch, file)
    /\ new_jobs' = batch
    /\ n_appends' = n_appends + 1
    /\ all_collected_jobs' = all_collected_jobs \o batch
    /\ UNCHANGED <<target_count, concurrency, semaphore, existing_gumtree_ids,
                   existing_count_in_file, total_scraped, page_num,
                   last_fingerprint, pc, url_idx, jobs_to_scrape, tasks,
                   start_file, page_links, prev_page_links, seen_page,
                   scheduled, failed_in_batch, stopped_by>>

NextAppend == \E batch \in Batches : AppendCall(batch)

SpecAppend == InitAppend /\ [][NextAppend]_vars

(***************************************************************************)
(* SpecRerun: scrape_gumtree_batch_mode run twice in sequence with the     *)
(* same target, the second run on the dataset the first one leaves,        *)
(* against a site that does not change between the runs: a page index      *)
(* lists the same links every time it is requested (under both URLs of     *)
(* build_listing_urls), and the detail page of a URL gives the same result *)
(* every time it is fetched.                                               *)
(***************************************************************************)
\* a detail page that cannot be loaded: scrape_single_job_gumtree returns None
Unreachable == "unreachable"

Sources == [1..MaxPages -> SeqsUpTo(Urls, MaxLinks)]
Details == [Urls -> Titles \cup {Unreachable}]

InitRerun ==
    /\ \E f \in StartFiles, target \in 0..MaxTarget, c \in 0..MaxConcurrency :
          StartOfRun(f, target, c)
    /\ source \in Sources
    /\ detail \in Details
    /\ run = 1
    /\ NoOlx
    /\ NoSteps

\* the listing page of page_num as the site serves it
ServedEmpty == pc = "goto" /\ source[page_num] = <<>> /\ ListingEmpty
ServedLinks == pc = "goto" /\ ListingLinks(source[page_num])

\* the detail page of the task's URL as the site serves it
ServedDetail(i) ==
    /\ pc = "gather"
    /\ IF detail[tasks[i].url] = Unreachable
       THEN FetchFails(i)
       ELSE FetchReturns(i, detail[tasks[i].url])

\* the first run has ended; scrape_gumtree_batch_mode is called again with the
\* same target_count and concurrency, and reads the dataset as it is now
SecondRun ==
    /\ pc = "done"
    /\ run = 1
    /\ run' = 2
    /\ start_file' = file
    /\ semaphore' = concurrency
    /\ existing_gumtree_ids' = load_existing_gumtree_jobs(file)
    /\ existing_count_in_file' = count_existing_gumtree_jobs(file)
    /\ total_scraped' = 0
    /\ all_collected_jobs' = <<>>
    /\ page_num' = 1
    /\ last_fingerprint' = None
    /\ pc' = "loop"
    /\ url_idx' = 1
    /\ jobs_to_scrape' = <<>>
    /\ tasks' = <<>>
    /\ page_links' = <<>>
    /\ prev_page_links' = <<>>
    /\ seen_page' = 0
    /\ scheduled' = <<>>
    /\ failed_in_batch' = 0
    /\ new_jobs' = <<>>
    /\ n_appends' = 0
    /\ stopped_by' = ""
    /\ UNCHANGED <<file, target_count, concurrency, source, detail, olx_vars,
                   step_vars>>

NextRerun ==
    \/ TargetReached
    \/ RequestListing
    \/ ServedEmpty
    \/ ServedLinks
    \/ \E i \in 1..Len(tasks) : Acquire(i)
    \/ \E i \in 1..Len(tasks) : ServedDetail(i)
    \/ GatherDone
    \/ SecondRun

SpecRerun == InitRerun /\ [][NextRerun]_vars

(***************************************************************************)
(* SpecOlx: simple_scraper.scrape_jobs_in_batches(links, batch_size) and   *)
(* the jobs.csv it writes                                                  *)
(***************************************************************************)
\* load_existing_jobs_from_csv(): the rows csv.DictReader gives, [] without file
load_existing_jobs_from_csv(f) == IF ~f.exists THEN <<>> ELSE DictRows(f)

\* the jobs.csv a call starts on: none, or one that save_to_csv(jobs) wrote
OlxFiles ==
    { NoFile,
      olx_save_to_csv(<<>>, "w", NoFile),
      olx_save_to_csv(<<Job(<<-1, 1>>, "Cleaner")>>, "w", NoFile) }

\* the variables scrape_jobs_in_batches does not use
walk_only_vars ==
    <<file, target_count, concurrency, semaphore, existing_gumtree_ids,
      existing_count_in_file, total_scraped, all_collected_jobs, page_num,
      last_fingerprint, url_idx, jobs_to_scrape, page_links, prev_page_links,
      seen_page, scheduled, failed_in_batch, stopped_by, step_vars>>

InitOlx ==
    /\ jobs_csv \in OlxFiles
    /\ start_file = jobs_csv
    /\ links \in SeqsUpTo(Urls, MaxOlxLinks)
    /\ batch_size \in 1..MaxBatchSize
    /\ batch_index = 0
    /\ all_jobs = load_existing_jobs_from_csv(jobs_csv)
    /\ tasks = <<>>
    /\ new_jobs = <<>>
    /\ n_appends = 0
    /\ stopped_by = ""
    /\ pc = "batch"
    /\ target_count = 0
    /\ concurrency = 0
    /\ semaphore = 0
    /\ file = NoFile
    /\ existing_gumtree_ids = {}
    /\ existing_count_in_file = 0
    /\ total_scraped = 0
    /\ all_collected_jobs = <<>>
    /\ page_num = 1
    /\ last_fingerprint = None
    /\ url_idx = 1
    /\ jobs_to_scrape = <<>>
    /\ page_links = <<>>
    /\ prev_page_links = <<>>
    /\ seen_page = 0
    /\ scheduled = <<>>
    /\ failed_in_batch = 0
    /\ NoRerun
    /\ NoSteps

\* batch = links[i:i + batch_size]
batch_of(ls, i, size) ==
    SubSeq(ls, i + 1, IF i + size < Len(ls) THEN i + size ELSE Len(ls))

\* for i in range(0, total_links, batch_size): the tasks of the batch are
\* created; scrape_single_job takes no semaphore, every task runs at once
OlxLaunch ==
    /\ pc = "batch"
    /\ batch_index < Len(links)
    /\ tasks' = [j \in 1..Len(batch_of(links, batch_index, batch_size)) |->
                   [url |-> batch_of(links, batch_index, batch_size)[j],
                    st |-> "run", title |-> ""]]
    /\ pc' = "gather"
    /\ UNCHANGED <<walk_only_vars, rerun_vars, jobs_csv, links, batch_size,
                   batch_index, all_jobs, start_file, new_jobs, n_appends>>

\* the range is exhausted: return all_jobs
OlxReturn ==
    /\ pc = "batch"
    /\ batch_index >= Len(links)
    /\ pc' = "done"
    /\ UNCHANGED <<walk_only_vars, rerun_vars, olx_vars, tasks, start_file,
                   new_jobs, n_appends>>

\* scrape_single_job returns the dict of extract_job_data, whose title is
\* what the page's h1 holds ('' when there is no h1)
OlxFetchReturns(i, title) ==
    /\ pc = "gather"
    /\ tasks[i].st = "run"
    /\ tasks' = [tasks EXCEPT ![i].st = "dict", ![i].title = title]
    /\ UNCHANGED <<walk_only_vars, rerun_vars, olx_vars, pc, start_file,
                   new_jobs, n_appends>>

\* new_page or goto raises: scrape_single_job returns None
OlxFetchFails(i) ==
    /\ pc = "gather"
    /\ tasks[i].st = "run"
    /\ tasks' = [tasks EXCEPT ![i].st = "none"]
    /\ UNCHANGED <<walk_only_vars, rerun_vars, olx_vars, pc, start_file,
                   new_jobs, n_appends>>

\* isinstance(result, dict) and result
olx_valid_result(t) == t.st = "dict"

\* batch_jobs of scrape_jobs_in_batches, in task order
olx_batch_jobs_of(ts) ==
    LET ok == SelectSeq(ts, olx_valid_result)
    IN [j \in 1..Len(ok) |-> Job(ok[j].url, ok[j].title)]

\* gather has returned: batch_jobs is appended to jobs.csv and to all_jobs,
\* and the loop goes to the next batch
OlxBatchDone ==
    /\ pc = "gather"
    /\ gather_done(tasks)
    /\ LET batch_jobs == olx_batch_jobs_of(tasks)
       IN /\ jobs_csv' = olx_append_to_csv(batch_jobs, jobs_csv)
          /\ all_jobs' = all_jobs \o batch_jobs
          /\ new_jobs' = batch_jobs
          /\ n_appends' = IF batch_jobs # <<>> THEN n_appends + 1 ELSE n_appends
    /\ batch_index' = batch_index + batch_size
    /\ tasks' = <<>>
    /\ pc' = "batch"
    /\ UNCHANGED <<walk_only_vars, rerun_vars, links, batch_size, start_file>>

NextOlx ==
    \/ OlxLaunch
    \/ OlxReturn
    \/ \E i \in 1..Len(tasks), title \in Titles : OlxFetchReturns(i, title)
    \/ \E i \in 1..Len(tasks) : OlxFetchFails(i)
    \/ OlxBatchDone

SpecOlx == InitOlx /\ [][NextOlx]_vars

(***************************************************************************)
(* SpecExample: scrape_gumtree_batch_mode with target_count 5 on a dataset *)
(* of two valid records, identities 100 and 101, against listing pages     *)
(* that hold the candidates 100, 102, 103 or the candidate 104             *)
(***************************************************************************)
ExampleFile ==
    FileOf(writeheader \o writerow(Job(<<-1, 100>>, "Cleaner"))
                       \o writerow(Job(<<-1, 101>>, "Cleaner")))

ExamplePage == <<(<<-1, 100>>), (<<-1, 102>>), (<<-1, 103>>)>>

ExamplePages == {ExamplePage, <<(<<-1, 104>>)>>}

InitExample ==
    /\ \E c \in 1..MaxConcurrency : StartOfRun(ExampleFile, 5, c)
    /\ NoRerun
    /\ NoSteps
    /\ NoOlx

\* the target is above the two records of the dataset, so the run never
\* finds the target reached at the top of the loop
NextExample ==
    \/ RequestListing
    \/ ListingError
    \/ ListingEmpty
    \/ \E listing_links \in ExamplePages : ListingLinks(listing_links)
    \/ \E i \in 1..Len(tasks) : Acquire(i)
    \/ \E i \in 1..Len(tasks), title \in Titles : FetchReturns(i, title)
    \/ \E i \in 1..Len(tasks) : FetchFails(i)
    \/ GatherDone

SpecExample == InitExample /\ [][NextExample]_vars

(***************************************************************************)
(* SpecDefault: scrape_gumtree_batch_mode called without target_count.     *)
(* The target is read from jobs.csv as simple_scraper left it, the         *)
(* dataset is a gumtree_jobs.csv with its header (or none at all).         *)
(***************************************************************************)
\* records simple_scraper has written: it persists every dict it fetched
JobsLists ==
    { <<>>,
      <<Job(<<-1, 1>>, "Cleaner")>>,
      <<Job(<<-1, 1>>, "Cleaner"), Job(<<-1, 2>>, Denied), Job(<<-1, 3>>, "")>> }

\* jobs.csv: missing, written by save_to_csv(jobs) (mode 'w'), or created
\* by append_to_csv(jobs) when it was missing
JobsFiles ==
    {NoFile}
    \cup {olx_save_to_csv(js, "w", NoFile) : js \in JobsLists}
    \cup {olx_append_to_csv(js, NoFile) : js \in JobsLists}

\* gumtree_jobs.csv: missing; two rows of one URL; a row with an empty
\* title; a denied row; a denied and a valid row; a file without header
DatasetFiles ==
    { NoFile,
      FileOf(writeheader \o writerow(Job(<<-1, 1>>, "Cleaner"))
                         \o writerow(Job(<<-1, 1>>, "Cleaner"))),
      FileOf(writeheader \o writerow(Job(<<-1, 1>>, ""))),
      FileOf(writeheader \o writerow(Job(<<-1, 1>>, Denied))),
      FileOf(writeheader \o writerow(Job(<<-1, 1>>, Denied))
                         \o writerow(Job(<<-1, NumIds + 1>>, "Cleaner"))),
      FileOf(writerow(Job(<<-1, 1>>, "Cleaner"))) }

\* if target_count is None: target_count = get_target_count_from_jobs_csv()
InitDefault ==
    /\ jobs_csv \in JobsFiles
    /\ \E f \in DatasetFiles, c \in 1..MaxConcurrency :
          StartOfRun(f, get_target_count_from_jobs_csv(jobs_csv), c)
    /\ links = <<>>
    /\ batch_size = 1
    /\ batch_index = 0
    /\ all_jobs = <<>>
    /\ NoRerun
    /\ NoSteps

SpecDefault == InitDefault /\ [][Next]_vars

(***************************************************************************)
(* gumtree_scraper.append_to_csv, one file operation at a time.  op names  *)
(* the operation that comes next; every operation reaches the file in      *)
(* program order.  An operation on the file may raise instead (permission, *)
(* disk full): the call is left with the file as the operations before it  *)
(* made it.                                                                *)
(***************************************************************************)
\* the variables of the run that a call of append_to_csv leaves alone
caller_vars ==
    <<target_count, concurrency, semaphore, existing_gumtree_ids,
      existing_count_in_file, total_scraped, all_collected_jobs, page_num,
      last_fingerprint, url_idx, jobs_to_scrape, tasks, start_file,
      page_links, prev_page_links, seen_page, scheduled, failed_in_batch,
      n_appends, stopped_by, pc, new_jobs, rerun_vars, olx_vars>>

\* if not new_jobs: return
NothingToAppend ==
    /\ op = "begin"
    /\ new_jobs = <<>>
    /\ call' = [call EXCEPT !.op = "returned"]
    /\ UNCHANGED <<file, caller_vars>>

\* open(filename, 'r'), readline, and when the first line is not the header
\* seek(0) and read; FileNotFoundError is passed over
OpenForRead ==
    /\ op = "begin"
    /\ new_jobs # <<>>
    /\ call' = IF ~file.exists
               THEN [call EXCEPT !.op = "open_a"]
               ELSE IF first_line(file) # <<HeaderText>>
                    THEN [call EXCEPT !.file_exists = TRUE,
                                      !.existing_content = read_text(file.content),
                                      !.op = "open_w"]
                    ELSE [call EXCEPT !.file_exists = TRUE, !.op = "open_a"]
    /\ UNCHANGED <<file, caller_vars>>

\* open(filename, 'w', newline=''): the file is truncated
OpenForWrite ==
    /\ op = "open_w"
    /\ file' = FileOf(<<>>)
    /\ call' = [call EXCEPT !.op = "backfill_header"]
    /\ UNCHANGED caller_vars

\* writer.writeheader() of the backfill
BackfillHeader ==
    /\ op = "backfill_header"
    /\ file' = FileOf(file.content \o writeheader)
    /\ call' = [call EXCEPT !.op = "backfill_content"]
    /\ UNCHANGED caller_vars

\* fw.write(existing_content), and both files are closed
BackfillContent ==
    /\ op = "backfill_content"
    /\ file' = FileOf(file.content \o existing_content)
    /\ call' = [call EXCEPT !.op = "open_a"]
    /\ UNCHANGED caller_vars

\* open(filename, 'a', newline=''): the file is created when it is missing
OpenForAppend ==
    /\ op = "open_a"
    /\ file' = FileOf(file.content)
    /\ call' = [call EXCEPT !.op = IF ~file_exists THEN "new_header" ELSE "rows"]
    /\ UNCHANGED caller_vars

\* if not file_exists: writer.writeheader()
NewFileHeader ==
    /\ op = "new_header"
    /\ file' = FileOf(file.content \o writeheader)
    /\ call' = [call EXCEPT !.op = "rows"]
    /\ UNCHANGED caller_vars

\* writer.writerow(ordered_job) for the next job of new_jobs
WriteRow ==
    /\ op = "rows"
    /\ written < Len(new_jobs)
    /\ file' = FileOf(file.content \o writerow(new_jobs[written + 1]))
    /\ call' = [call EXCEPT !.written = written + 1]
    /\ UNCHANGED caller_vars

\* the for loop is over: the file is closed and append_to_csv returns
AppendReturns ==
    /\ op = "rows"
    /\ written = Len(new_jobs)
    /\ call' = [call EXCEPT !.op = "returned"]
    /\ UNCHANGED <<file, caller_vars>>

\* an operation on the file raises OSError
AppendRaises ==
    /\ \/ op = "begin" /\ new_jobs # <<>> /\ file.exists
       \/ op \in {"open_w", "backfill_header", "backfill_content", "open_a",
                  "new_header"}
       \/ op = "rows" /\ written < Len(new_jobs)
    /\ call' = [call EXCEPT !.op = "raised"]
    /\ UNCHANGED <<file, caller_vars>>

\* a file operation of a call with a non-empty new_jobs
AppendStep ==
    \/ OpenForRead
    \/ OpenForWrite
    \/ BackfillHeader
    \/ BackfillContent
    \/ OpenForAppend
    \/ NewFileHeader
    \/ WriteRow
    \/ AppendReturns

\* one call append_to_csv(new_jobs) on an enumerated file
InitSteps ==
    /\ file \in AppendFiles
    /\ start_file = file
    /\ new_jobs \in Batches
    /\ call = AppendBegins
    /\ n_appends = 0
    /\ stopped_by = ""
    /\ all_collected_jobs = <<>>
    /\ pc = "append"
    /\ target_count = 0
    /\ concurrency = 0
    /\ semaphore = 0
    /\ existing_gumtree_ids = {}
    /\ existing_count_in_file = 0
    /\ total_scraped = 0
    /\ page_num = 1
    /\ last_fingerprint = None
    /\ url_idx = 1
    /\ jobs_to_scrape = <<>>
    /\ tasks = <<>>
    /\ page_links = <<>>
    /\ prev_page_links = <<>>
    /\ seen_page = 0
    /\ scheduled = <<>>
    /\ failed_in_batch = 0
    /\ NoRerun
    /\ NoOlx

NextSteps == NothingToAppend \/ AppendStep \/ AppendRaises

SpecSteps == InitSteps /\ [][NextSteps]_vars

(***************************************************************************)
(* One run of scrape_gumtree_batch_mode in which append_to_csv is taken    *)
(* one file operation at a time and may raise                              *)
(***************************************************************************)
\* the batch has settled and holds no valid result: nothing is appended
NoBatchJobs == batch_jobs_of(tasks) = <<>> /\ GatherDone

\* the batch has settled with valid results: append_to_csv(batch_jobs) is
\* called
CallAppend ==
    /\ pc = "gather"
    /\ gather_done(tasks)
    /\ batch_jobs_of(tasks) # <<>>
    /\ new_jobs' = batch_jobs_of(tasks)
    /\ failed_in_batch' = Cardinality({i \in 1..Len(tasks) : tasks[i].st = "none"})
    /\ tasks' = <<>>
    /\ pc' = "append"
    /\ call' = AppendBegins
    /\ UNCHANGED <<file, target_count, concurrency, semaphore,
                   existing_gumtree_ids, existing_count_in_file, total_scraped,
                   all_collected_jobs, page_num, last_fingerprint, url_idx,
                   jobs_to_scrape, start_file, page_links, prev_page_links,
                   seen_page, scheduled, n_appends, stopped_by, rerun_vars,
                   olx_vars>>

\* append_to_csv has returned: all_collected_jobs.extend(batch_jobs),
\* total_scraped += len(batch_jobs), and the end of the page's work
AppendReturned ==
    /\ pc = "append"
    /\ op = "returned"
    /\ call' = NoCall
    /\ all_collected_jobs' = all_collected_jobs \o new_jobs
    /\ total_scraped' = total_scraped + Len(new_jobs)
    /\ n_appends' = n_appends + 1
    /\ AfterPage(total_scraped + Len(new_jobs))
    /\ UNCHANGED <<file, target_count, concurrency, semaphore,
                   existing_gumtree_ids, existing_count_in_file,
                   last_fingerprint, url_idx, jobs_to_scrape, tasks,
                   start_file, page_links, prev_page_links, seen_page,
                   scheduled, failed_in_batch, new_jobs, rerun_vars,
                   olx_vars>>

\* append_to_csv has raised: except Exception, break
AppendAborts ==
    /\ pc = "append"
    /\ op = "raised"
    /\ pc' = "done"
    /\ stopped_by' = "io_error"
    /\ UNCHANGED <<file, target_count, concurrency, semaphore,
                   existing_gumtree_ids, existing_count_in_file, total_scraped,
                   all_collected_jobs, page_num, last_fingerprint, url_idx,
                   jobs_to_scrape, tasks, start_file, page_links,
                   prev_page_links, seen_page, scheduled, failed_in_batch,
                   new_jobs, n_appends, step_vars, rerun_vars, olx_vars>>

NextAbort ==
    \/ TargetReached
    \/ RequestListing
    \/ ListingError
    \/ ListingEmpty
    \/ \E listing_links \in ListingPages : ListingLinks(listing_links)
    \/ \E i \in 1..Len(tasks) : Acquire(i)
    \/ \E i \in 1..Len(tasks), title \in Titles : FetchReturns(i, title)
    \/ \E i \in 1..Len(tasks) : FetchFails(i)
    \/ NoBatchJobs
    \/ CallAppend
    \/ AppendStep
    \/ AppendRaises
    \/ AppendReturned
    \/ AppendAborts

SpecAbort == Init /\ [][NextAbort]_vars

(***************************************************************************)
(* clean_errors.clean_403_errors(input_file, backup): one call, one file   *)
(* operation at a time.  check_duplicates only reads and prints, and is    *)
(* left out.                                                               *)
(***************************************************************************)
\* a title that is '403 ERROR' between blanks
DeniedPadded == " 403 ERROR "

\* row.get('title', '').strip()
title_stripped(title) == IF title = DeniedPadded THEN Denied ELSE title

\* faulty variant: the title is compared as it is
rows_kept_unstripped(f) == SelectSeq(DictRows(f), LAMBDA r : r.title # Denied)

\* error_records: the rows whose stripped title is '403 ERROR'
error_records(f) ==
    LET rows == DictRows(f)
    IN Cardinality({j \in 1..Len(rows) : title_stripped(rows[j].title) = Denied})

\* the rows whose stripped title is not '403 ERROR', in file order
rows_kept(f) ==
    SelectSeq(DictRows(f), LAMBDA r : title_stripped(r.title) # Denied)

CleanTexts ==
    {HeaderText, OtherText, RowText(<<-1, 1>>, "Cleaner"),
     RowText(<<-1, 2>>, Denied), RowText(<<-1, 2>>, DeniedPadded)}

\* the contents of n lines of CleanTexts, each terminated by "\r\n"
RECURSIVE CleanContents(_)
CleanContents(n) ==
    IF n = 0 THEN {<<>>}
    ELSE {c \o <<t, CRLF>> : c \in CleanContents(n - 1), t \in CleanTexts}

NoFirstCall == [input |-> NoFile, left |-> NoFile, copies |-> 0, rewrites |-> 0]

\* no file, and every file of at most MaxCleanLines lines
CleanFiles ==
    {NoFile}
    \cup {FileOf(c) : c \in UNION {CleanContents(n) : n \in 0..MaxCleanLines}}

\* what a call of clean_403_errors leaves alone; start_file is the file as
\* it was when the call began
clean_frame ==
    <<target_count, concurrency, semaphore, existing_gumtree_ids,
      existing_count_in_file, total_scraped, all_collected_jobs, page_num,
      last_fingerprint, url_idx, jobs_to_scrape, tasks,
      page_links, prev_page_links, seen_page, scheduled, failed_in_batch,
      n_appends, stopped_by, pc, new_jobs, rerun_vars, olx_vars>>

InitClean ==
    /\ file \in CleanFiles
    /\ start_file = file
    /\ \E b \in BOOLEAN :
          call = [op |-> "clean", backup |-> b, backup_file |-> NoFile,
                  clean_records |-> <<>>, calls |-> 1, copies |-> 0,
                  rewrites |-> 0, first_call |-> NoFirstCall]
    /\ new_jobs = <<>>
    /\ n_appends = 0
    /\ stopped_by = ""
    /\ all_collected_jobs = <<>>
    /\ pc = "clean"
    /\ target_count = 0
    /\ concurrency = 0
    /\ semaphore = 0
    /\ existing_gumtree_ids = {}
    /\ existing_count_in_file = 0
    /\ total_scraped = 0
    /\ page_num = 1
    /\ last_fingerprint = None
    /\ url_idx = 1
    /\ jobs_to_scrape = <<>>
    /\ tasks = <<>>
    /\ page_links = <<>>
    /\ prev_page_links = <<>>
    /\ seen_page = 0
    /\ scheduled = <<>>
    /\ failed_in_batch = 0
    /\ NoRerun
    /\ NoOlx

\* the calls of clean_403_errors on the file so far, the backup copies and
\* the rewrites they made, and how the first call found and left things
calls == call.calls
copies == call.copies
rewrites == call.rewrites
first_call == call.first_call

\* if not os.path.exists(input_file): return
CleanNoFile ==
    /\ op = "clean"
    /\ ~file.exists
    /\ call' = [call EXCEPT !.op = "returned"]
    /\ UNCHANGED <<file, start_file, clean_frame>>

\* the count of total_records and error_records; if error_records == 0:
\* return
CleanCount ==
    /\ op = "clean"
    /\ file.exists
    /\ call' = [call EXCEPT
                  !.op = IF error_records(file) = 0 THEN "returned" ELSE "backup"]
    /\ UNCHANGED <<file, start_file, clean_frame>>

\* faulty variant: no copy is made
CleanBackup_none ==
    /\ op = "backup"
    /\ call' = [call EXCEPT !.op = "read"]
    /\ UNCHANGED <<file, start_file, clean_frame>>

\* if backup: shutil.copy2(input_file, backup_file)
CleanBackup ==
    /\ op = "backup"
    /\ call' = [call EXCEPT
                  !.backup_file = IF backup THEN file ELSE backup_file,
                  !.copies = IF backup THEN copies + 1 ELSE copies,
                  !.op = "read"]
    /\ UNCHANGED <<file, start_file, clean_frame>>

\* the file is read again: clean_records are the rows to keep
CleanRead ==
    /\ op = "read"
    /\ call' = [call EXCEPT !.clean_records = rows_kept(file), !.op = "open_w"]
    /\ UNCHANGED <<file, start_file, clean_frame>>

\* open(input_file, 'w', newline=''): the file is truncated
CleanOpenWrite ==
    /\ op = "open_w"
    /\ file' = FileOf(<<>>)
    /\ call' = [call EXCEPT !.op = "write", !.rewrites = rewrites + 1]
    /\ UNCHANGED <<start_file, clean_frame>>

\* writer.writeheader(), writer.writerows(clean_records).  headers is
\* reader.fieldnames, which is the canonical header in every file where a
\* row has the title '403 ERROR'
CleanWrite ==
    /\ op = "write"
    /\ file' = FileOf(writeheader \o writerows(clean_records))
    /\ call' = [call EXCEPT !.op = "returned"]
    /\ UNCHANGED <<start_file, clean_frame>>

\* clean_403_errors is called a second time on the file the first call has
\* left, with either value of backup
CleanAgain ==
    /\ op = "returned"
    /\ calls = 1
    /\ \E b \in BOOLEAN :
          call' = [op |-> "clean", backup |-> b, backup_file |-> NoFile,
                   clean_records |-> <<>>, calls |-> 2, copies |-> copies,
                   rewrites |-> rewrites,
                   first_call |-> [input |-> start_file, left |-> file,
                                   copies |-> copies, rewrites |-> rewrites]]
    /\ start_file' = file
    /\ UNCHANGED <<file, clean_frame>>

NextClean ==
    \/ CleanAgain
    \/ CleanNoFile
    \/ CleanCount
    \/ CleanBackup
    \/ CleanRead
    \/ CleanOpenWrite
    \/ CleanWrite

SpecClean == InitClean /\ [][NextClean]_vars

(***************************************************************************)
(* check_uniqueness: analyze_uniqueness, export_duplicates_to_csv, main.   *)
(* The file analysed is [exists, header, rows]: header says whether its    *)
(* first line is the canonical header; a row is its id, url, title and     *)
(* company (the other fields are empty), or a short row that holds an id   *)
(* and nothing after it.                                                   *)
(***************************************************************************)
AuditRows ==
    {[id |-> i, url |-> u, title |-> t, company |-> c, short |-> FALSE] :
        i \in {"", "7"}, u \in {"", "u"}, t \in Titles, c \in {"", "Acme"}}
    \cup {[id |-> "7", url |-> "", title |-> "", company |-> "", short |-> TRUE]}

\* no file; a file with the header and any rows, at most n; a file without
\* header whose rows, at most n, are all complete
AuditFiles(n) ==
    {[exists |-> FALSE, header |-> FALSE, rows |-> <<>>]}
    \cup {[exists |-> TRUE, header |-> TRUE, rows |-> rs] :
            rs \in SeqsUpTo(AuditRows, n)}
    \cup {[exists |-> TRUE, header |-> FALSE, rows |-> rs] :
            rs \in SeqsUpTo({r \in AuditRows : ~r.short}, n)}

Criteria == <<"ID", "URL", "Title+Company", "Full_Content">>

\* csv.DictReader: the rows after the line that gives the field names.  With
\* the header, a field a short row lacks is None; without it, the first row
\* gives the field names, so 'id', 'url', 'title' and 'company' are not
\* fields and row.get(field, '') is ''.  full is the list of the values of
\* the fields in headers, as full_content_key joins them.
audit_rows(f) ==
    LET rs == IF f.header \/ f.rows = <<>> THEN f.rows ELSE Tail(f.rows)
    IN [i \in 1..Len(rs) |->
          IF f.header
          THEN [id |-> rs[i].id, url |-> rs[i].url, title |-> rs[i].title,
                company |-> rs[i].company, none |-> rs[i].short,
                full |-> IF rs[i].short
                         THEN <<rs[i].id, "None", "None", "None">>
                         ELSE <<rs[i].id, rs[i].url, rs[i].title, rs[i].company>>]
          ELSE [id |-> "", url |-> "", title |-> "", company |-> "",
                none |-> FALSE,
                full |-> <<rs[i].id, rs[i].url, rs[i].title, rs[i].company>>]]

\* the key of a row under a criterion
key_of(c, r) ==
    CASE c = "ID" -> <<r.id>>
      [] c = "URL" -> <<r.url>>
      [] c = "Title+Company" -> <<r.title, r.company>>
      [] c = "Full_Content" -> r.full

\* whether the row is tracked under the criterion: it is not a '403 ERROR'
\* row, and its key is not empty
tracked(c, r) ==
    /\ r.title # Denied
    /\ CASE c = "ID" -> r.id # ""
         [] c = "URL" -> r.url # ""
         [] c = "Title+Company" -> r.title # "" /\ r.company # ""
         [] c = "Full_Content" -> TRUE

\* the dict of a criterion, in insertion order: each key with the row_num
\* (enumerate(reader, start=2)) of every row that has it
counts_of(c, rd) ==
    LET idx == [i \in 1..Len(rd) |-> i]
        firsts == SelectSeq(idx, LAMBDA i :
                     /\ tracked(c, rd[i])
                     /\ \A j \in 1..(i - 1) :
                           ~(tracked(c, rd[j]) /\ key_of(c, rd[j]) = key_of(c, rd[i])))
        same(i) == SelectSeq(idx, LAMBDA j :
                     tracked(c, rd[j]) /\ key_of(c, rd[j]) = key_of(c, rd[i]))
    IN [n \in 1..Len(firsts) |->
          [key |-> key_of(c, rd[firsts[n]]),
           positions |-> [m \in 1..Len(same(firsts[n])) |->
                            same(firsts[n])[m] + 1]]]

\* {k: v for k, v in counts.items() if len(v) > 1}
duplicates_of(c, rd) ==
    SelectSeq(counts_of(c, rd), LAMBDA g : Len(g.positions) > 1)

\* sum(len(positions) - 1 for positions in duplicates.values())
RECURSIVE total_duplicates(_)
total_duplicates(groups) ==
    IF groups = <<>> THEN 0
    ELSE (Len(Head(groups).positions) - 1) + total_duplicates(Tail(groups))

\* row.get('title', '').strip() raises AttributeError on a row whose title
\* is None
analysis_raises(f) == \E i \in 1..Len(audit_rows(f)) : audit_rows(f)[i].none

\* analyze_uniqueness(input_file), for a file that exists and on which it
\* does not raise
analyze_uniqueness(f) ==
    LET rd == audit_rows(f)
        valid == Cardinality({i \in 1..Len(rd) : rd[i].title # Denied})
    IN [done |-> TRUE,
        total_records |-> Len(rd),
        valid_records |-> valid,
        error_records |-> Len(rd) - valid,
        duplicates |-> [n \in 1..Len(Criteria) |-> duplicates_of(Criteria[n], rd)]]

\* the Value column: the key, and for Full_Content duplicate_key[:100] + '...'
value_written(c, key) == IF c = "Full_Content" THEN key \o <<"...">> ELSE key

\* export_duplicates_to_csv(analysis): the rows after the heading row
RECURSIVE export_lines(_, _)
export_lines(a, n) ==
    IF n > Len(Criteria) THEN <<>>
    ELSE [m \in 1..Len(a.duplicates[n]) |->
            [type |-> Criteria[n],
             value |-> value_written(Criteria[n], a.duplicates[n][m].key),
             positions |-> a.duplicates[n][m].positions,
             count |-> Len(a.duplicates[n][m].positions)]]
         \o export_lines(a, n + 1)

export_duplicates_to_csv(a) == [written |-> TRUE, lines |-> export_lines(a, 1)]

\* main: total_duplicates = total_id_duplicates + total_url_duplicates
\*                          + total_title_company_duplicates
main_total_duplicates(a) ==
    total_duplicates(a.duplicates[1]) + total_duplicates(a.duplicates[2])
      + total_duplicates(a.duplicates[3])

\* what a run of check_uniqueness leaves alone
audit_frame ==
    <<file, target_count, concurrency, semaphore, existing_gumtree_ids,
      existing_count_in_file, total_scraped, all_collected_jobs, page_num,
      last_fingerprint, url_idx, jobs_to_scrape, tasks, start_file,
      page_links, prev_page_links, seen_page, scheduled, failed_in_batch,
      n_appends, stopped_by, pc, new_jobs, rerun_vars, olx_vars>>

InitAudit ==
    /\ \E f \in AuditFiles(MaxAuditRows) :
          call = [op |-> "audit", input_file |-> f, analysis |-> NoAnalysis,
                  report |-> NoReport]
    /\ file = NoFile
    /\ start_file = NoFile
    /\ new_jobs = <<>>
    /\ n_appends = 0
    /\ stopped_by = ""
    /\ all_collected_jobs = <<>>
    /\ pc = "audit"
    /\ target_count = 0
    /\ concurrency = 0
    /\ semaphore = 0
    /\ existing_gumtree_ids = {}
    /\ existing_count_in_file = 0
    /\ total_scraped = 0
    /\ page_num = 1
    /\ last_fingerprint = None
    /\ url_idx = 1
    /\ jobs_to_scrape = <<>>
    /\ tasks = <<>>
    /\ page_links = <<>>
    /\ prev_page_links = <<>>
    /\ seen_page = 0
    /\ scheduled = <<>>
    /\ failed_in_batch = 0
    /\ NoRerun
    /\ NoOlx

\* if not os.path.exists(input_file): return None, and main returns
AuditNoFile ==
    /\ op = "audit"
    /\ ~input_file.exists
    /\ call' = [call EXCEPT !.op = "returned"]
    /\ UNCHANGED audit_frame

\* analysis = analyze_uniqueness('jobs.csv')
Analyze ==
    /\ op = "audit"
    /\ input_file.exists
    /\ ~analysis_raises(input_file)
    /\ call' = [call EXCEPT !.analysis = analyze_uniqueness(input_file),
                            !.op = "analysed"]
    /\ UNCHANGED audit_frame

\* analyze_uniqueness raises AttributeError: the program ends with it
AnalyzeRaises ==
    /\ op = "audit"
    /\ input_file.exists
    /\ analysis_raises(input_file)
    /\ call' = [call EXCEPT !.op = "raised"]
    /\ UNCHANGED audit_frame

\* if total_duplicates > 0: export_duplicates_to_csv(analysis)
Export ==
    /\ op = "analysed"
    /\ main_total_duplicates(analysis) > 0
    /\ call' = [call EXCEPT !.report = export_duplicates_to_csv(analysis),
                            !.op = "returned"]
    /\ UNCHANGED audit_frame

\* else: the dataset is said to be clean and unique, nothing is written
NoExport ==
    /\ op = "analysed"
    /\ ~(main_total_duplicates(analysis) > 0)
    /\ call' = [call EXCEPT !.op = "returned"]
    /\ UNCHANGED audit_frame

NextAudit ==
    \/ AuditNoFile
    \/ Analyze
    \/ AnalyzeRaises
    \/ Export
    \/ NoExport

SpecAudit == InitAudit /\ [][NextAudit]_vars

(***************************************************************************)
(* One run of scrape_gumtree_batch_mode in which scrape_single_job_gumtree *)
(* is taken one await at a time.  A task that holds a permit is at "run"   *)
(* (before context.new_page()), at "page" (its page is open: goto,        *)
(* wait_for_timeout and extract_job_data_gumtree are to come) or at        *)
(* "closed" (p.close() is done, asyncio.sleep(1.2) is to come).            *)
(* call.open_pages holds the URLs of the detail pages that are open in the *)
(* browser context.                                                        *)
(***************************************************************************)
open_pages == call.open_pages

\* the tasks that are inside async with semaphore
holding == {i \in 1..Len(tasks) : tasks[i].st \in {"run", "page", "closed"}}

fetch_frame ==
    <<file, target_count, concurrency, existing_gumtree_ids,
      existing_count_in_file, total_scraped, all_collected_jobs, page_num,
      last_fingerprint, pc, url_idx, jobs_to_scrape, start_file, page_links,
      prev_page_links, seen_page, scheduled, failed_in_batch, new_jobs,
      n_appends, stopped_by, rerun_vars, olx_vars>>

\* p = await context.new_page()
NewPage(i) ==
    /\ pc = "gather"
    /\ tasks[i].st = "run"
    /\ tasks' = [tasks EXCEPT ![i].st = "page"]
    /\ call' = [call EXCEPT !.open_pages = open_pages \cup {tasks[i].url}]
    /\ UNCHANGED <<semaphore, fetch_frame>>

\* context.new_page() raises: except Exception, return None, and the permit
\* is given back
NewPageRaises(i) ==
    /\ pc = "gather"
    /\ tasks[i].st = "run"
    /\ tasks' = [tasks EXCEPT ![i].st = "none"]
    /\ semaphore' = semaphore + 1
    /\ UNCHANGED <<call, fetch_frame>>

\* faulty variant: the permit is kept when goto raises
GotoRaises_keeps_permit(i) ==
    /\ pc = "gather"
    /\ tasks[i].st = "page"
    /\ tasks' = [tasks EXCEPT ![i].st = "none"]
    /\ UNCHANGED <<semaphore, call, fetch_frame>>

\* p.goto (the navigation timeout of 30000 ms) or p.wait_for_timeout raises:
\* except Exception, return None; p.close() is not reached
GotoRaises(i) ==
    /\ pc = "gather"
    /\ tasks[i].st = "page"
    /\ tasks' = [tasks EXCEPT ![i].st = "none"]
    /\ semaphore' = semaphore + 1
    /\ UNCHANGED <<call, fetch_frame>>

\* faulty variant: the page is left open after the extraction
ExtractAndClose_leaves_open(i, title) ==
    /\ pc = "gather"
    /\ tasks[i].st = "page"
    /\ tasks' = [tasks EXCEPT ![i].st = "closed", ![i].title = title]
    /\ UNCHANGED <<call, semaphore, fetch_frame>>

\* goto and wait_for_timeout return, extract_job_data_gumtree returns its
\* dict (an error in the extraction is caught inside it and leaves the
\* fields empty), and p.close()
ExtractAndClose(i, title) ==
    /\ pc = "gather"
    /\ tasks[i].st = "page"
    /\ tasks' = [tasks EXCEPT ![i].st = "closed", ![i].title = title]
    /\ call' = [call EXCEPT !.open_pages = open_pages \ {tasks[i].url}]
    /\ UNCHANGED <<semaphore, fetch_frame>>

\* faulty variant: the permit is kept when the task returns
SleepAndReturn_keeps_permit(i) ==
    /\ pc = "gather"
    /\ tasks[i].st = "closed"
    /\ tasks' = [tasks EXCEPT ![i].st = "dict"]
    /\ UNCHANGED <<semaphore, call, fetch_frame>>

\* asyncio.sleep(1.2), return data, and the permit is given back
SleepAndReturn(i) ==
    /\ pc = "gather"
    /\ tasks[i].st = "closed"
    /\ tasks' = [tasks EXCEPT ![i].st = "dict"]
    /\ semaphore' = semaphore + 1
    /\ UNCHANGED <<call, fetch_frame>>

\* the datasets of the runs: none, and one that holds a valid record
FetchFiles ==
    {NoFile, FileOf(writeheader \o writerow(Job(<<-1, 1>>, "Cleaner")))}

\* a run with no detail page open
InitFetch ==
    /\ \E f \in FetchFiles, target \in 1..MaxTarget, c \in 0..MaxConcurrency :
          StartOfRun(f, target, c)
    /\ call = [op |-> "none", open_pages |-> {}]
    /\ NoRerun
    /\ NoOlx

NextFetch ==
    \/ TargetReached
    \/ RequestListing
    \/ ListingError
    \/ ListingEmpty
    \/ \E listing_links \in ListingPages : ListingLinks(listing_links)
    \/ \E i \in 1..Len(tasks) : Acquire(i)
    \/ \E i \in 1..Len(tasks) : NewPage(i)
    \/ \E i \in 1..Len(tasks) : NewPageRaises(i)
    \/ \E i \in 1..Len(tasks) : GotoRaises(i)
    \/ \E i \in 1..Len(tasks), title \in Titles : ExtractAndClose(i, title)
    \/ \E i \in 1..Len(tasks) : SleepAndReturn(i)
    \/ GatherDone

SpecFetch == InitFetch /\ [][NextFetch]_vars

\* a step of a fetch task of the batch in flight
TaskStep ==
    \E i \in 1..Len(tasks) :
       \/ Acquire(i)
       \/ NewPage(i)
       \/ NewPageRaises(i)
       \/ GotoRaises(i)
       \/ \E title \in Titles : ExtractAndClose(i, title)
       \/ SleepAndReturn(i)

\* the walk over the first MaxFairPages listing pages
NextFair == page_num <= MaxFairPages /\ NextFetch

\* the event loop keeps running: a task that can take a step is not left
\* waiting forever (a fetch that has started finishes, a free permit is
\* taken by a waiting task), and gather returns once every task has settled
SpecFetchFair ==
    /\ InitFetch
    /\ [][NextFair]_vars
    /\ WF_vars(TaskStep)
    /\ WF_vars(GatherDone)

(***************************************************************************)
(* simple_scraper.scrape_jobs_batch_mode(target_count, batch_size): the    *)
(* walk over the OLX listing pages.  A listing link is its URL and the     *)
(* text of its h4 (has_h4 is FALSE when the link holds no h4: such a link  *)
(* is passed over); the h4 query of a link does not raise.  The call       *)
(* scrape_jobs_in_batches(new_links, batch_size) of a page is one step,    *)
(* with the outcome of every fetch drawn freely.                           *)
(***************************************************************************)
\* if page_num >= 25: break
LastPage == 25

\* title.strip().lower()
title_clean_of(title) ==
    CASE title \in {"Cleaner", "CLEANER"} -> "cleaner"
      [] title = "Driver" -> "driver"
      [] title = Denied -> "403 error"
      [] OTHER -> title

ListingTitles == {"Cleaner", "CLEANER", "Driver"}

OlxLinks ==
    {[url |-> <<-1, i>>, has_h4 |-> TRUE, h4 |-> t] :
        i \in Ids, t \in ListingTitles}
    \cup {[url |-> <<-1, 1>>, has_h4 |-> FALSE, h4 |-> ""]}

\* what query_selector_all('a[href*="/oferta/praca/"]') can return
OlxPages == SeqsUpTo(OlxLinks, MaxLinks)

\* row['title'] raises KeyError for a row of a file whose first line does
\* not name the field
olx_title_raises(f) ==
    /\ f.exists
    /\ first_line(f) # <<HeaderText>>
    /\ DictRows(f) # <<>>

\* count_existing_jobs(): the rows with a title that is not '403 ERROR'
count_existing_jobs(f) ==
    IF ~f.exists THEN 0
    ELSE LET rows == DictRows(f)
         IN Cardinality({j \in 1..Len(rows) :
                           rows[j].title # "" /\ rows[j].title # Denied})

\* load_existing_jobs(): the cleaned titles of those rows
load_existing_jobs(f) ==
    IF ~f.exists THEN {}
    ELSE LET rows == DictRows(f)
         IN {title_clean_of(rows[j].title) :
               j \in {k \in 1..Len(rows) :
                        rows[k].title # "" /\ rows[k].title # Denied}}

\* the loop over job_links: a link with an h4 whose cleaned title is not in
\* existing_jobs is appended to new_links and its cleaned title added at once
RECURSIVE olx_find_new_links(_, _, _)
olx_find_new_links(job_links, known, found) ==
    IF job_links = <<>> THEN [new_links |-> found, existing_jobs |-> known]
    ELSE LET link == Head(job_links)
             title_clean == title_clean_of(link.h4)
         IN IF link.has_h4 /\ title_clean \notin known
            THEN olx_find_new_links(Tail(job_links), known \cup {title_clean},
                                    Append(found, link.url))
            ELSE olx_find_new_links(Tail(job_links), known, found)

\* the batch_jobs of the batch that starts at i: the dicts among the results
olx_batch_results(urls, results, i, size) ==
    LET idx == [j \in 1..Len(batch_of(urls, i, size)) |-> i + j]
        ok == SelectSeq(idx, LAMBDA j : results[j] # Unreachable)
    IN [j \in 1..Len(ok) |-> Job(urls[ok[j]], results[ok[j]])]

\* the for loop of scrape_jobs_in_batches from batch start i on: every batch
\* is appended to jobs.csv and to all_jobs
RECURSIVE olx_batches(_, _, _, _, _, _)
olx_batches(urls, results, i, size, f, jobs) ==
    IF i >= Len(urls) THEN [jobs_csv |-> f, all_jobs |-> jobs]
    ELSE LET batch_jobs == olx_batch_results(urls, results, i, size)
         IN olx_batches(urls, results, i + size, size,
                        olx_append_to_csv(batch_jobs, f), jobs \o batch_jobs)

\* faulty variant: all_jobs starts empty
scrape_jobs_in_batches_new_only(urls, results, size, f) ==
    olx_batches(urls, results, 0, size, f, <<>>)

\* scrape_jobs_in_batches(links, batch_size) on jobs.csv f, results[j] being
\* what the fetch of links[j] gives: the file it leaves and what it returns
scrape_jobs_in_batches(urls, results, size, f) ==
    olx_batches(urls, results, 0, size, f, load_existing_jobs_from_csv(f))

existing_count == call.existing_count
existing_jobs == call.existing_jobs
\* the page indices page.goto was called with, in the order of the calls
requested == call.requested

\* the variables scrape_jobs_batch_mode does not use
batch_mode_frame ==
    <<file, concurrency, semaphore, existing_gumtree_ids,
      existing_count_in_file, last_fingerprint, url_idx, jobs_to_scrape,
      tasks, page_links, prev_page_links, seen_page, scheduled,
      failed_in_batch, new_jobs, n_appends, stopped_by, rerun_vars,
      batch_index, start_file, target_count, batch_size>>

\* the jobs.csv a run starts on: those of OlxFiles, and the file that
\* append_to_csv made of two records when there was none
BatchModeFiles ==
    OlxFiles
    \cup {olx_save_to_csv(<<Job(<<-1, 1>>, "Cleaner"), Job(<<-1, 2>>, "Cleaner")>>,
                          "a", NoFile)}

InitBatchMode ==
    /\ jobs_csv \in BatchModeFiles
    /\ start_file = jobs_csv
    /\ target_count \in 0..MaxTarget
    /\ batch_size \in {1, MaxBatchSize}
    /\ call = [op |-> "none", existing_count |-> 0, existing_jobs |-> {},
               requested |-> <<>>]
    /\ pc = "start"
    /\ page_num = 1
    /\ total_scraped = 0
    /\ all_collected_jobs = <<>>
    /\ links = <<>>
    /\ all_jobs = <<>>
    /\ batch_index = 0
    /\ tasks = <<>>
    /\ new_jobs = <<>>
    /\ n_appends = 0
    /\ stopped_by = ""
    /\ concurrency = 0
    /\ semaphore = 0
    /\ file = NoFile
    /\ existing_gumtree_ids = {}
    /\ existing_count_in_file = 0
    /\ last_fingerprint = None
    /\ url_idx = 1
    /\ jobs_to_scrape = <<>>
    /\ page_links = <<>>
    /\ prev_page_links = <<>>
    /\ seen_page = 0
    /\ scheduled = <<>>
    /\ failed_in_batch = 0
    /\ NoRerun

\* existing_count = count_existing_jobs(), existing_jobs =
\* load_existing_jobs(); a KeyError of row['title'] ends the call
BatchModeStart ==
    /\ pc = "start"
    /\ IF olx_title_raises(jobs_csv)
       THEN pc' = "raised" /\ call' = call
       ELSE /\ pc' = "page"
            /\ call' = [call EXCEPT
                          !.existing_count = count_existing_jobs(jobs_csv),
                          !.existing_jobs = load_existing_jobs(jobs_csv)]
    /\ UNCHANGED <<jobs_csv, page_num, total_scraped, all_collected_jobs,
                   links, all_jobs, batch_mode_frame>>

\* page.goto of the listing page raises: the exception leaves the while
\* loop and the function through the finally
BatchModePageRaises ==
    /\ pc = "page"
    /\ pc' = "raised"
    /\ call' = [call EXCEPT !.requested = Append(requested, page_num)]
    /\ UNCHANGED <<jobs_csv, page_num, total_scraped,
                   all_collected_jobs, links, all_jobs, batch_mode_frame>>

\* the listing page of page_num is requested and holds job_links; without
\* links the loop is left, else new_links is what is new on the page
BatchModePage(job_links) ==
    /\ pc = "page"
    /\ IF job_links = <<>>
       THEN /\ pc' = "done"
            /\ call' = [call EXCEPT !.requested = Append(requested, page_num)]
            /\ links' = links
       ELSE LET found == olx_find_new_links(job_links, existing_jobs, <<>>)
            IN /\ call' = [call EXCEPT
                             !.requested = Append(requested, page_num),
                             !.existing_jobs = found.existing_jobs]
               /\ links' = found.new_links
               /\ pc' = IF found.new_links # <<>> THEN "scrape" ELSE "check"
    /\ UNCHANGED <<jobs_csv, page_num, total_scraped, all_collected_jobs,
                   all_jobs, batch_mode_frame>>

\* page_jobs = await scrape_jobs_in_batches(new_links, batch_size);
\* if page_jobs: all_collected_jobs.extend(page_jobs) and
\* total_scraped += len(page_jobs)
BatchModeScrape(results) ==
    /\ pc = "scrape"
    /\ LET ret == scrape_jobs_in_batches(links, results, batch_size, jobs_csv)
           page_jobs == ret.all_jobs
       IN /\ jobs_csv' = ret.jobs_csv
          /\ all_jobs' = page_jobs
          /\ all_collected_jobs' = all_collected_jobs \o page_jobs
          /\ total_scraped' = total_scraped + Len(page_jobs)
    /\ pc' = "check"
    /\ UNCHANGED <<call, page_num, links, batch_mode_frame>>

\* if target_count and total_scraped >= target_count
olx_target_reached == target_count # 0 /\ total_scraped >= target_count

\* faulty variant: the check of the last page is left out
BatchModeAfterPage_no_last_page ==
    /\ pc = "check"
    /\ IF olx_target_reached
       THEN pc' = "done" /\ page_num' = page_num
       ELSE pc' = "page" /\ page_num' = page_num + 1
    /\ UNCHANGED <<jobs_csv, call, total_scraped, all_collected_jobs, links,
                   all_jobs, batch_mode_frame>>

\* the checks at the end of a page: the target, then the last page, then
\* page_num += 1
BatchModeAfterPage ==
    /\ pc = "check"
    /\ IF olx_target_reached \/ page_num >= LastPage
       THEN pc' = "done" /\ page_num' = page_num
       ELSE pc' = "page" /\ page_num' = page_num + 1
    /\ UNCHANGED <<jobs_csv, call, total_scraped, all_collected_jobs, links,
                   all_jobs, batch_mode_frame>>

NextBatchMode ==
    \/ BatchModeStart
    \/ BatchModePageRaises
    \/ \E job_links \in OlxPages : BatchModePage(job_links)
    \/ \E results \in [1..Len(links) -> Titles \cup {Unreachable}] :
          BatchModeScrape(results)
    \/ BatchModeAfterPage

SpecBatchMode == InitBatchMode /\ [][NextBatchMode]_vars

\* every step that can be taken is taken in the end: a request is answered
\* or times out, a fetch returns or raises
SpecBatchModeFair == SpecBatchMode /\ WF_vars(NextBatchMode)

(***************************************************************************)
(* Notions the properties are stated in                                    *)
(***************************************************************************)
\* the identities of a sequence of URLs, in order
IdsOf(urls) == [i \in 1..Len(urls) |-> job_id_from_url(urls[i])]

\* the ordered first ten candidate identities of a listing page
FirstTenIds(listing_links) ==
    LET ids == IdsOf(listing_links)
    IN [i \in 1..(IF Len(ids) < 10 THEN Len(ids) ELSE 10) |-> ids[i]]

\* the record texts of a file content, in file order
RowTexts(content) == SelectSeq(content, LAMBDA t : t.k = "row")

\* the record texts of a sequence of jobs
RowTextsOf(jobs) == [i \in 1..Len(jobs) |-> RowText(jobs[i].url, jobs[i].title)]

\* the lines a sequence of jobs makes, one job per line
RowLinesOf(jobs) == [i \in 1..Len(jobs) |-> <<RowText(jobs[i].url, jobs[i].title)>>]

\* the fetch tasks that hold a permit of the semaphore
Running == {i \in 1..Len(tasks) : tasks[i].st = "run"}

Waiting == {i \in 1..Len(tasks) : tasks[i].st = "wait"}

(***************************************************************************)
(* C1.  In every batch the number of detail fetches launched is at most   *)
(* remaining = target_count - (existing_count_in_file + total_scraped) as  *)
(* it is right before the batch (it does not change while the batch is in  *)
(* flight), however many new candidates the listing page holds.            *)
(***************************************************************************)
C1_NoOverFetch ==
    pc = "gather" =>
        /\ Len(tasks) <= remaining
        /\ Len(tasks) = Len(jobs_to_scrape)

\* a first page with more new identities than are still needed
C1_Witness ==
    /\ pc = "gather"
    /\ seen_page = 1
    /\ Len(tasks) = remaining
    /\ Cardinality({job_id_from_url(page_links[i]) : i \in 1..Len(page_links)}
                   \ load_existing_gumtree_jobs(start_file)) > Len(tasks)

(***************************************************************************)
(* C2.  Within one run no identity is scheduled for a detail fetch more    *)
(* than once, and every scheduled identity is in existing_gumtree_ids from *)
(* the moment its batch is launched.                                       *)
(***************************************************************************)
C2_NoIdentityTwice ==
    /\ \A i, j \in 1..Len(scheduled) :
          i # j => job_id_from_url(scheduled[i]) # job_id_from_url(scheduled[j])
    /\ \A i \in 1..Len(scheduled) :
          job_id_from_url(scheduled[i]) \in existing_gumtree_ids

\* an identity that was scheduled from a page showing it twice, and that the
\* next page shows again
C2_Witness ==
    /\ seen_page = 2
    /\ \E k \in 1..Len(scheduled) :
          LET id == job_id_from_url(scheduled[k])
          IN /\ Cardinality({i \in 1..Len(prev_page_links) :
                               job_id_from_url(prev_page_links[i]) = id}) >= 2
             /\ \E i \in 1..Len(page_links) : job_id_from_url(page_links[i]) = id
    /\ fingerprint_of(page_links) # fingerprint_of(prev_page_links)

(***************************************************************************)
(* C3.  A detail fetch whose title is the denial sentinel '403 ERROR' is   *)
(* not a batch success: no such record is among the accepted ones, none is *)
(* appended to the file, and total_scraped counts none.                    *)
(***************************************************************************)
C3_DeniedNotCounted ==
    /\ \A i \in 1..Len(all_collected_jobs) : all_collected_jobs[i].title # Denied
    /\ Len(SelectSeq(RowTexts(file.content), LAMBDA t : t.title = Denied))
         = Len(SelectSeq(RowTexts(start_file.content), LAMBDA t : t.title = Denied))
    /\ total_scraped
         = Len(SelectSeq(all_collected_jobs, LAMBDA j : j.title # Denied))

(***************************************************************************)
(* C4.  As claimed: remaining never increases from one step to the next    *)
(* and is never negative, for every target_count and starting dataset.     *)
(***************************************************************************)
C4_AsClaimed ==
    /\ [][remaining' <= remaining]_vars
    /\ [](remaining >= 0)

(***************************************************************************)
(* C4, amended.  remaining never increases from one step to the next, and  *)
(* it is never negative in a run that starts with existing_count_in_file   *)
(* <= target_count; in the other runs it is negative from the start and    *)
(* keeps its first value.                                                  *)
(***************************************************************************)
C4_Monotonic ==
    /\ [][remaining' <= remaining]_vars
    /\ [](existing_count_in_file <= target_count => remaining >= 0)
    /\ [](existing_count_in_file > target_count =>
            remaining = target_count - existing_count_in_file)

\* the target was met exactly by the batch of a page that held more new
\* identities than were needed
C4_Witness ==
    /\ pc = "done"
    /\ remaining = 0
    /\ seen_page = 1
    /\ total_scraped = Len(jobs_to_scrape)
    /\ total_scraped > 0
    /\ Cardinality({job_id_from_url(page_links[i]) : i \in 1..Len(page_links)}
                   \ load_existing_gumtree_jobs(start_file)) > total_scraped

(***************************************************************************)
(* C5.  No listing page is requested while existing_count_in_file +        *)
(* total_scraped >= target_count, for every non-negative target_count.     *)
(***************************************************************************)
C5_NoRequestWhenSatisfied == pc = "goto" => ~satisfied

(***************************************************************************)
(* C6.  If page N+1 returns the same ordered first ten candidate           *)
(* identities as page N (N >= 1), the walk ends on page N+1: nothing is    *)
(* scheduled from page N+1 and the run is over, so page N+2 is never       *)
(* requested.                                                              *)
(***************************************************************************)
C6_LoopTermination ==
    (/\ seen_page = page_num
     /\ page_num > 1
     /\ FirstTenIds(page_links) = FirstTenIds(prev_page_links))
    => (pc = "done" /\ jobs_to_scrape = <<>> /\ tasks = <<>>)

\* two pages that agree on the first ten identities and differ after them
C6_Witness ==
    /\ seen_page = page_num
    /\ page_num > 1
    /\ FirstTenIds(page_links) = FirstTenIds(prev_page_links)
    /\ IdsOf(page_links) # IdsOf(prev_page_links)
    /\ pc = "done"

(***************************************************************************)
(* C7.  append_to_csv with a non-empty batch on an existing file whose     *)
(* first line is not the canonical header leaves: the canonical header,    *)
(* then every original line in its original order, then the new rows in    *)
(* batch order, each a line of its own.  (Checked under SpecAppend.)       *)
(***************************************************************************)
FirstLineIsHeader(f) ==
    Lines(f.content) # <<>> /\ Lines(f.content)[1] = <<HeaderText>>

C7_HeaderSelfHealing ==
    (/\ n_appends = 1
     /\ new_jobs # <<>>
     /\ start_file.exists
     /\ ~FirstLineIsHeader(start_file))
    => Lines(file.content)
         = <<<<HeaderText>>>> \o Lines(start_file.content) \o RowLinesOf(new_jobs)

C9_ConcurrencyBound ==
    /\ Cardinality(Running) <= concurrency
    /\ semaphore = concurrency - Cardinality(Running)

\* all permits are taken while another task of the batch waits
C9_Witness ==
    /\ concurrency >= 1
    /\ Cardinality(Running) = concurrency
    /\ Waiting # {}

(***************************************************************************)
(* C10.  The file and total_scraped change only in a step taken when every *)
(* fetch task of the batch has settled; and a step in which a fetch fails  *)
(* leaves every sibling task as it was.                                    *)
(***************************************************************************)
C10_AllSettledBeforeAppend ==
    [][/\ (file' # file \/ total_scraped' # total_scraped) =>
            (pc = "gather" /\ \A i \in 1..Len(tasks) : settled(tasks[i]))
       /\ \A i \in 1..Len(tasks) :
            (tasks[i].st = "run" /\ pc' = "gather" /\ tasks'[i].st = "none") =>
                \A j \in 1..Len(tasks) : j # i => tasks'[j] = tasks[j]
      ]_vars

\* a batch in which one fetch failed and a sibling's record was appended
C10_Witness ==
    /\ pc \in {"loop", "done"}
    /\ failed_in_batch >= 1
    /\ new_jobs # <<>>
    /\ n_appends >= 1

(***************************************************************************)
(* C11: when scrape_gumtree_batch_mode is run a second time with the same  *)
(* target, on the dataset the first run left and against an unchanged      *)
(* site, the second run appends nothing: it accepts no record and the      *)
(* dataset file stays as the first run left it.                            *)
(***************************************************************************)
C11_SecondRunAppendsNothing ==
    run = 2 => (all_collected_jobs = <<>> /\ file = start_file)

(***************************************************************************)
(* C12: when a batch has settled, the rows added to the dataset and the    *)
(* increment of total_scraped are exactly the fetches that returned a      *)
(* record with a non-empty title, and every added row has a non-empty      *)
(* title; a fetch that returned None (it raised) or a record with an empty *)
(* title adds no row and no increment.                                     *)
(***************************************************************************)
C12_OnlyTitledRecords ==
    [][(pc = "gather" /\ pc' # "gather") =>
         LET titled == {i \in 1..Len(tasks) :
                          tasks[i].st = "dict" /\ tasks[i].title # ""}
             before == RowTexts(file.content)
             after == RowTexts(file'.content)
         IN /\ total_scraped' - total_scraped = Cardinality(titled)
            /\ Len(after) - Len(before) = Cardinality(titled)
            /\ \A i \in (Len(before) + 1)..Len(after) : after[i].title # ""
            /\ \A i \in 1..Len(all_collected_jobs') :
                  all_collected_jobs'[i].title # ""]_vars

\* page 1 gave a batch of two, one fetch returned None and the other a record
\* with an empty title: nothing was counted and the file is as it was
C12_Witness ==
    /\ pc = "loop"
    /\ page_num = 2
    /\ seen_page = 1
    /\ Len(jobs_to_scrape) = 2
    /\ failed_in_batch = 1
    /\ total_scraped = 0
    /\ file = start_file

(***************************************************************************)
(* C13: every row that scrape_jobs_in_batches appends to jobs.csv has a    *)
(* non-empty title.                                                        *)
(***************************************************************************)
C13_OlxOnlyTitledRows ==
    LET before == RowTexts(start_file.content)
        now == RowTexts(jobs_csv.content)
    IN \A i \in (Len(before) + 1)..Len(now) : now[i].title # ""

(***************************************************************************)
(* C14: after any sequence of gumtree append_to_csv calls, started on a    *)
(* missing file or on a file whose first line is the canonical header, the *)
(* file holds the lines it started with (the header alone when it was      *)
(* missing) followed by one line per appended row, in the order of         *)
(* appending; so no further header line is written.  (Checked under        *)
(* SpecAppend.)                                                            *)
(***************************************************************************)
C14_OneHeaderThenRows ==
    (~start_file.exists \/ FirstLineIsHeader(start_file)) =>
        Lines(file.content) =
            (IF start_file.exists \/ all_collected_jobs = <<>>
             THEN Lines(start_file.content)
             ELSE <<<<HeaderText>>>>)
            \o RowLinesOf(all_collected_jobs)

(***************************************************************************)
(* C15: when jobs.csv does not exist and simple_scraper's append_to_csv is *)
(* called with a non-empty batch, the file it creates has the canonical    *)
(* header as its first line, followed by the rows.                         *)
(***************************************************************************)
C15_OlxAppendCreatesWithHeader ==
    (~start_file.exists /\ jobs_csv.exists) =>
        Lines(jobs_csv.content) = <<<<HeaderText>>>> \o RowLinesOf(all_jobs)

(***************************************************************************)
(* C16: the example.  The first listing page returned the candidates 100,  *)
(* 102, 103 and its batch is over with two records accepted.               *)
(***************************************************************************)
ExampleBatchOver ==
    /\ seen_page = 1
    /\ page_links = ExamplePage
    /\ pc # "gather"
    /\ total_scraped = 2

(***************************************************************************)
(* C16, as claimed: after the batch of the example 100 was skipped,        *)
(* exactly 102 and 103 were scheduled, remaining equals 0 and the run has  *)
(* stopped on page 1 without requesting a further listing page.            *)
(***************************************************************************)
C16_AsClaimed ==
    ExampleBatchOver =>
        /\ scheduled = <<(<<-1, 102>>), (<<-1, 103>>)>>
        /\ remaining = 0
        /\ pc = "done"
        /\ page_num = 1

(***************************************************************************)
(* C16, amended: after the batch of the example 100 was skipped, exactly   *)
(* 102 and 103 were scheduled, remaining equals 1 (5 - (2 + 2)), and the   *)
(* run has not stopped on page 1: it has moved on to page 2, which it      *)
(* requests.                                                               *)
(***************************************************************************)
C16_ExampleGoesOn ==
    ExampleBatchOver =>
        /\ scheduled = <<(<<-1, 102>>), (<<-1, 103>>)>>
        /\ remaining = 1
        /\ page_num = 2
        /\ pc = "loop" => ~target_reached_before_page

\* the batch of the example is over and page 2 is being requested
C16_Witness == ExampleBatchOver /\ pc = "goto" /\ page_num = 2

(***************************************************************************)
(* C17: the running total compared against the target,                     *)
(* existing_count_in_file + total_scraped, equals the number of identities *)
(* loaded into the deduplication index at startup plus the number of       *)
(* records accepted in this run, whatever the starting dataset holds.      *)
(***************************************************************************)
C17_TotalIsIndexPlusAccepted ==
    existing_count_in_file + total_scraped =
        Cardinality(load_existing_gumtree_jobs(start_file))
        + Len(all_collected_jobs)

(***************************************************************************)
(* C18: the deduplication index built at startup holds no identity whose   *)
(* only rows in the dataset are denial captures (title '403 ERROR').       *)
(***************************************************************************)
DeniedOnlyIds ==
    LET rows == RowTexts(start_file.content)
    IN {job_id_from_url(rows[i].url) : i \in 1..Len(rows)}
       \ {job_id_from_url(rows[i].url) :
             i \in {j \in 1..Len(rows) : rows[j].title # Denied}}

C18_DeniedNotInIndex ==
    (pc = "loop" /\ page_num = 1 /\ seen_page = 0) =>
        existing_gumtree_ids \cap DeniedOnlyIds = {}

(***************************************************************************)
(* C19: without target_count, the target of the run is the number of rows  *)
(* of jobs.csv whose title is non-empty and is not '403 ERROR'.            *)
(***************************************************************************)
C19_DefaultTarget ==
    jobs_csv.exists =>
        target_count =
            Cardinality({i \in 1..Len(RowTexts(jobs_csv.content)) :
                           RowTexts(jobs_csv.content)[i].title \notin {"", Denied}})

(***************************************************************************)
(* C20: a missing input file does not stop the run.  Without jobs.csv the  *)
(* target is 1321; without gumtree_jobs.csv the index starts empty and the *)
(* existing count is 0, and the walk goes on as on any dataset: what it    *)
(* accepts is counted and is written to a new file under the header.       *)
(***************************************************************************)
C20_MissingFilesFallBack ==
    /\ ~jobs_csv.exists => target_count = 1321
    /\ ~start_file.exists =>
          /\ existing_count_in_file = 0
          /\ seen_page = 0 => existing_gumtree_ids = {}
          /\ \A i \in 1..Len(scheduled) :
                IdsOf(scheduled)[i] \in existing_gumtree_ids
          /\ total_scraped = Len(all_collected_jobs)
          /\ file = IF all_collected_jobs = <<>> THEN NoFile
                    ELSE FileOf(writeheader \o writerows(all_collected_jobs))

\* both files are missing, page 1 gave a record and page 2 is next
C20_Witness ==
    /\ ~jobs_csv.exists
    /\ ~start_file.exists
    /\ pc = "loop"
    /\ page_num = 2
    /\ total_scraped = 1


C22_FailedFetchNotRetried ==
    [](
        /\ pc = "gather" =>
              \A i \in 1..Len(tasks) :
                 tasks[i].st = "none" =>
                    /\ \A k \in 1..Len(batch_jobs_of(tasks)) :
                          batch_jobs_of(tasks)[k].url # tasks[i].url
                    /\ job_id_from_url(tasks[i].url) \in existing_gumtree_ids
                    /\ Cardinality({k \in 1..Len(scheduled) :
                          job_id_from_url(scheduled[k])
                            = job_id_from_url(tasks[i].url)}) = 1
        /\ (tasks = <<>> /\ jobs_to_scrape # <<>>) =>
              /\ Len(new_jobs) <= Len(jobs_to_scrape) - failed_in_batch
              /\ failed_in_batch > 0 => (pc = "loop" /\ page_num = seen_page + 1)
        /\ Len(all_collected_jobs) <= Len(scheduled)
        /\ \A k \in 1..Len(all_collected_jobs) :
              \E i \in 1..Len(scheduled) : scheduled[i] = all_collected_jobs[k].url
    )

\* the only fetch of page 1 failed, page 2 shows its identity again next to a
\* new one, and only the new one is fetched
C22_Witness ==
    /\ pc = "gather"
    /\ seen_page = 2
    /\ failed_in_batch = 1
    /\ Len(scheduled) = 2
    /\ Len(jobs_to_scrape) = 1
    /\ total_scraped = 0
    /\ \E i \in 1..Len(page_links) :
          job_id_from_url(page_links[i]) = job_id_from_url(scheduled[1])

(***************************************************************************)
(* C23.  The walk ends when a maximum page count is reached: once          *)
(* MaxPages pages have been walked, no further page is due, whatever the   *)
(* listing source returned and however the fetches ended.                  *)
(***************************************************************************)
C23_EndsAtMaximumPageCount ==
    (pc = "loop" /\ page_num > MaxPages) => target_reached_before_page

(***************************************************************************)
(* C24.  For each page index the first URL requested is the primary one    *)
(* (the bare base for page 1, the base with /pageN otherwise); the         *)
(* fallback ?page=N is requested only in a step from the primary URL of    *)
(* the same page that yielded no candidate; the walk ends for lack of      *)
(* listings only in a step from the fallback URL, and then the run is      *)
(* over: no step is possible.                                              *)
(***************************************************************************)
C24_PrimaryThenFallback ==
    /\ [](pc = "goto" =>
            /\ url_idx \in 1..2
            /\ url_idx = 1 =>
                  candidate = [path |-> IF page_num = 1 THEN 0 ELSE page_num,
                               page |-> 0]
            /\ url_idx = 2 =>
                  /\ candidate = [path |-> 0, page |-> page_num]
                  /\ seen_page # page_num)
    /\ [][/\ (pc # "goto" /\ pc' = "goto") => url_idx' = 1
          /\ (pc' = "goto" /\ url_idx' = 2) =>
                /\ pc = "goto" /\ url_idx = 1
                /\ page_num' = page_num
                /\ UNCHANGED <<page_links, seen_page, existing_gumtree_ids>>
          /\ (stopped_by' = "no_listings") =>
                /\ pc = "goto" /\ url_idx = 2
                /\ pc' = "done"
                /\ UNCHANGED <<page_links, seen_page, page_num>>
      ]_vars
    /\ [](stopped_by = "no_listings" => ~ENABLED Next)

\* page 2 is reached, its primary URL and then its fallback URL yield no
\* candidate, and the walk ends
C24_Witness ==
    /\ stopped_by = "no_listings"
    /\ page_num = 2
    /\ seen_page = 1
    /\ candidate = [path |-> 0, page |-> 2]

(***************************************************************************)
(* C25.  While a detail fetch of the batch is in flight (some task has not *)
(* settled), no step changes existing_gumtree_ids, total_scraped or the    *)
(* file: the index grows only in the step that handles a listing page,     *)
(* which is the step that launches the batch, and total_scraped and the    *)
(* file change only in the step that follows the settling of every task.   *)
(***************************************************************************)
C25_NothingChangesInFlight ==
    [][/\ (pc = "gather" /\ \E i \in 1..Len(tasks) : ~settled(tasks[i])) =>
             UNCHANGED <<existing_gumtree_ids, total_scraped, file>>
       /\ existing_gumtree_ids' # existing_gumtree_ids =>
             (pc = "goto" /\ tasks = <<>>)
       /\ (total_scraped' # total_scraped \/ file' # file) =>
             (/\ pc = "gather"
              /\ \A i \in 1..Len(tasks) : settled(tasks[i])
              /\ tasks' = <<>>)
      ]_vars

\* a fetch is running next to a settled fetch of the same batch, on a
\* dataset file that exists
C25_Witness ==
    /\ pc = "gather"
    /\ \E i, j \in 1..Len(tasks) : tasks[i].st = "run" /\ tasks[j].st = "dict"
    /\ file.exists

(***************************************************************************)
(* C26.  At every point of an append on an existing file whose first line  *)
(* is not the canonical header, the file holds every record it held before *)
(* the append began, in the same order.  (Checked under SpecSteps.)        *)
(***************************************************************************)
C26_BackfillNeverLosesRows ==
    (start_file.exists /\ first_line(start_file) # <<HeaderText>>) =>
        LET before == RowTexts(start_file.content)
            now == RowTexts(file.content)
        IN /\ Len(now) >= Len(before)
           /\ SubSeq(now, 1, Len(before)) = before

(***************************************************************************)
(* C27.  An I/O error raised while a batch is appended aborts the run: no  *)
(* step of the run is possible after it, total_scraped and the accepted    *)
(* records do not include the failed batch, and the file holds the records *)
(* it held at startup followed by the records of the successful appends    *)
(* and nothing else.  (Checked under SpecAbort.)                           *)
(***************************************************************************)
C27_IOErrorLeavesLastAppend ==
    stopped_by = "io_error" =>
        /\ pc = "done"
        /\ ~ENABLED NextAbort
        /\ total_scraped = Len(all_collected_jobs)
        /\ n_appends = 0 => total_scraped = 0
        /\ RowTexts(file.content)
             = RowTexts(start_file.content) \o RowTextsOf(all_collected_jobs)

(***************************************************************************)
(* C28.  As claimed: in every execution of clean_403_errors, once the      *)
(* dataset file is no longer as it was when the call began, a backup copy  *)
(* exists and is the file as it was.  (Checked under SpecClean.)           *)
(***************************************************************************)
C28_AsClaimed == file # start_file => backup_file = start_file

(***************************************************************************)
(* C28, amended.  In every execution of clean_403_errors with backup true  *)
(* (the default), once the dataset file is no longer as it was when the    *)
(* call began, a backup copy exists and is the file as it was; and no step *)
(* changes the copy once the file has been touched.                        *)
(***************************************************************************)
C28_BackupBeforeRewrite ==
    /\ [](backup => (file # start_file => backup_file = start_file))
    /\ [][file' # file =>
            /\ backup => backup_file = file \/ file # start_file
            /\ backup_file' = backup_file]_vars

\* a file with a denied row and a valid row has been rewritten, and the copy
\* holds both
C28_Witness ==
    /\ backup
    /\ op = "returned"
    /\ file # start_file
    /\ backup_file = start_file
    /\ error_records(start_file) >= 1
    /\ rows_kept(start_file) # <<>>
    /\ file = FileOf(writeheader \o writerows(rows_kept(start_file)))

\* the records of the analysed file as the file holds them, and the row of
\* the file each is on (the header, when there is one, is row 1)
file_records(f) ==
    [i \in 1..Len(f.rows) |->
        [id |-> f.rows[i].id, url |-> f.rows[i].url, title |-> f.rows[i].title,
         company |-> f.rows[i].company,
         full |-> <<f.rows[i].id, f.rows[i].url, f.rows[i].title,
                    f.rows[i].company>>]]
row_position(f, i) == IF f.header THEN i + 1 ELSE i

\* the rows of the file, in ascending order, of the non-denied records that
\* have the key of record i under criterion c
rows_sharing(c, f, i) ==
    LET recs == file_records(f)
        idx == [j \in 1..Len(recs) |-> j]
        same == SelectSeq(idx, LAMBDA j :
                   tracked(c, recs[j]) /\ key_of(c, recs[j]) = key_of(c, recs[i]))
    IN [m \in 1..Len(same) |-> row_position(f, same[m])]

(***************************************************************************)
(* C29.  When check_uniqueness has run on a file, then for each criterion  *)
(* and each key that two or more non-denied records of the file share, the *)
(* report holds exactly one line with the criterion name, the key, the     *)
(* rows of all the records that have the key, ascending, and their number  *)
(* (at least 2); and for a key that one record alone has, no line.         *)
(* (Checked under SpecAudit.)                                              *)
(***************************************************************************)
C29_ReportListsEveryDuplicate ==
    (op \in {"returned", "raised"} /\ input_file.exists) =>
        \A n \in 1..Len(Criteria), i \in 1..Len(input_file.rows) :
           LET c == Criteria[n]
               rec == file_records(input_file)[i]
               rows == rows_sharing(c, input_file, i)
               lines == {m \in 1..Len(report.lines) :
                           /\ report.lines[m].type = c
                           /\ report.lines[m].value = key_of(c, rec)}
           IN tracked(c, rec) =>
                 IF Len(rows) >= 2
                 THEN /\ Cardinality(lines) = 1
                      /\ \A m \in lines :
                            /\ report.lines[m].positions = rows
                            /\ report.lines[m].count = Len(rows)
                 ELSE lines = {}

(***************************************************************************)
(* C30.  When analyze_uniqueness has been run on a file, it has returned   *)
(* totals with total_records = valid_records + error_records, where        *)
(* error_records is the number of records of the file whose title is       *)
(* '403 ERROR' and valid_records the number of the others, and no row of   *)
(* a '403 ERROR' record is in a duplicate group.  (Checked under           *)
(* SpecAudit.)                                                             *)
(***************************************************************************)
C30_DeniedRowsExcluded ==
    (op \in {"analysed", "returned", "raised"} /\ input_file.exists) =>
        LET recs == file_records(input_file)
            denied == {i \in 1..Len(recs) : recs[i].title = Denied}
        IN /\ analysis.done
           /\ analysis.total_records
                = analysis.valid_records + analysis.error_records
           /\ analysis.error_records = Cardinality(denied)
           /\ analysis.valid_records = Len(recs) - Cardinality(denied)
           /\ \A n \in 1..Len(analysis.duplicates) :
                 \A g \in 1..Len(analysis.duplicates[n]) :
                    \A p \in 1..Len(analysis.duplicates[n][g].positions) :
                       \A i \in denied :
                          analysis.duplicates[n][g].positions[p]
                            # row_position(input_file, i)

(***************************************************************************)
(* C31.  Every detail page opened by a fetch is closed by the time the     *)
(* fetch settles, on the success path and on every failure path: the page  *)
(* of a task that has returned, a dict or None, is not open, and after a   *)
(* batch has settled no detail page of the batch is open.  (Checked under  *)
(* SpecFetch.)                                                             *)
(***************************************************************************)
C31_DetailPagesClosed ==
    /\ \A i \in 1..Len(tasks) :
          settled(tasks[i]) => tasks[i].url \notin open_pages
    /\ pc # "gather" =>
          \A k \in 1..Len(scheduled) : scheduled[k] \notin open_pages

(***************************************************************************)
(* C37.  With concurrency C >= 1, if every started fetch eventually        *)
(* finishes, every batch eventually settles, whatever its size relative to *)
(* C: a batch in flight leads to gather having returned, so no task waits  *)
(* on the semaphore forever.  With C = 0 a non-empty batch never settles:  *)
(* every task of it waits, and no step leaves the wait.  (Checked under    *)
(* SpecFetchFair.)                                                         *)
(***************************************************************************)
C37_EveryBatchSettles ==
    /\ (pc = "gather" /\ concurrency >= 1) ~> (pc # "gather")
    /\ [](pc = "gather" /\ concurrency >= 1 =>
             <>(tasks # <<>> /\ gather_done(tasks)))
    /\ []((pc = "gather" /\ concurrency = 0) =>
             /\ tasks # <<>>
             /\ \A i \in 1..Len(tasks) : tasks[i].st = "wait"
             /\ ~ENABLED NextFair)

\* a batch of more tasks than permits has settled, one task having waited
\* for the permit of another
C37_Witness ==
    /\ pc = "gather"
    /\ concurrency >= 1
    /\ Len(tasks) > concurrency
    /\ gather_done(tasks)

(***************************************************************************)
(* C38.  Every fetch task gives its permit back on every path (a record,   *)
(* an empty record, an exception): at every moment the free permits are    *)
(* the C permits less the tasks inside async with semaphore, so once a     *)
(* batch has settled all C permits are free, and every batch starts with   *)
(* all C permits free.  (Checked under SpecFetch.)                         *)
(***************************************************************************)
C38_PermitsReturned ==
    /\ semaphore = concurrency - Cardinality(holding)
    /\ semaphore >= 0
    /\ gather_done(tasks) => semaphore = concurrency
    /\ pc # "gather" => semaphore = concurrency

\* the second batch of a run has settled with an empty record, after a first
\* batch whose fetch raised
C38_Witness ==
    /\ pc = "gather"
    /\ seen_page = 2
    /\ failed_in_batch = 1
    /\ gather_done(tasks)
    /\ \E i \in 1..Len(tasks) : tasks[i].st = "dict" /\ tasks[i].title = ""
    /\ concurrency >= 1
    /\ semaphore = concurrency

(***************************************************************************)
(* C36.  A candidate that a listing page yields as new and that the        *)
(* truncation to remaining drops is in existing_gumtree_ids from the       *)
(* launch of that page's batch; an identity never leaves the index; and a  *)
(* URL is only ever scheduled for a fetch when its identity is not in the  *)
(* index.  So the dropped candidate is never fetched later in the run,     *)
(* whatever the fetches of the batch give and whatever later pages show.   *)
(***************************************************************************)
C36_DroppedCandidateNeverFetched ==
    /\ [][(pc = "goto" /\ pc' = "gather") =>
            LET found == find_new_links(page_links', existing_gumtree_ids, <<>>)
            IN \A k \in 1..Len(found.new_links) :
                  k > Len(jobs_to_scrape') =>
                     /\ job_id_from_url(found.new_links[k])
                          \in existing_gumtree_ids'
                     /\ \A m \in 1..Len(scheduled') :
                           job_id_from_url(scheduled'[m])
                             # job_id_from_url(found.new_links[k])]_vars
    /\ [][existing_gumtree_ids \subseteq existing_gumtree_ids']_vars
    /\ [][/\ Len(scheduled') >= Len(scheduled)
          /\ \A m \in 1..Len(scheduled') :
                IF m <= Len(scheduled)
                THEN scheduled'[m] = scheduled[m]
                ELSE job_id_from_url(scheduled'[m]) \notin existing_gumtree_ids]_vars
    /\ [](\A i \in 1..Len(tasks) :
             \E m \in 1..Len(scheduled) : scheduled[m] = tasks[i].url)

\* page 1 gave two new candidates for a target of one, the first was
\* fetched and the fetch failed, and page 2 shows the dropped candidate
\* again: it is in the index, nothing is scheduled, the target is unmet
C36_Witness ==
    /\ seen_page = 2
    /\ failed_in_batch = 1
    /\ ~satisfied
    /\ Len(scheduled) = 1
    /\ Len(prev_page_links) > 1
    /\ \E i \in 1..Len(page_links) :
          /\ job_id_from_url(page_links[i]) \in existing_gumtree_ids
          /\ job_id_from_url(page_links[i])
               \notin load_existing_gumtree_jobs(start_file)
          /\ job_id_from_url(page_links[i]) # job_id_from_url(scheduled[1])
          /\ \E j \in 1..Len(prev_page_links) :
                job_id_from_url(prev_page_links[j])
                  = job_id_from_url(page_links[i])
    /\ tasks = <<>>
\* the records a run of scrape_jobs_batch_mode has appended to jobs.csv: the
\* record texts behind those the file held at startup
appended_in_run ==
    SubSeq(RowTexts(jobs_csv.content),
           Len(RowTexts(start_file.content)) + 1,
           Len(RowTexts(jobs_csv.content)))

\* C32: with a target_count T, scrape_jobs_batch_mode never fetches and
\* appends more than T minus the records already in jobs.csv at startup, and
\* it goes on to a next page only while those records plus the ones of the
\* run are fewer than T
C32_TargetCountsExistingRecords ==
    (target_count # 0 /\ pc \in {"page", "scrape", "check", "done"}) =>
        /\ Len(appended_in_run)
             <= (IF target_count > existing_count
                 THEN target_count - existing_count ELSE 0)
        /\ (pc = "page" /\ page_num > 1) =>
              existing_count + Len(appended_in_run) < target_count

\* C33: after every page of scrape_jobs_batch_mode total_scraped is the
\* number of records the run has fetched and appended, and the collected
\* list holds exactly those records
C33_TotalScrapedIsThisRun ==
    pc \in {"check", "done"} =>
        /\ total_scraped = Len(appended_in_run)
        /\ RowTextsOf(all_collected_jobs) = appended_in_run

\* C34: scrape_jobs_batch_mode requests the listing pages 1, 2, 3, ... in
\* this order, none twice and none above 25, and the call ends in every run
\* whose requests and fetches all settle
C34_PagesInOrderAndTermination ==
    /\ [](requested = [i \in 1..Len(requested) |-> i])
    /\ [](Len(requested) <= LastPage /\ page_num \in 1..LastPage)
    /\ [](pc = "page" => requested = [i \in 1..(page_num - 1) |-> i])
    /\ <>(pc \in {"done", "raised"})

\* a run that has fetched a record is through with page 25
C34_Witness ==
    /\ pc = "done"
    /\ requested = [i \in 1..LastPage |-> i]
    /\ appended_in_run # <<>>
    /\ ~olx_target_reached


\* the records a file holds: its non-blank lines, but for the header line
\* when it comes first
held_records(f) ==
    LET ls == NonBlank(Lines(read_text(f.content)))
        body == IF ls # <<>> /\ ls[1][1].k = "hdr" THEN Tail(ls) ELSE ls
    IN [i \in 1..Len(body) |-> [url |-> body[i][1].url, title |-> body[i][1].title]]

headed(f) ==
    LET ls == NonBlank(Lines(read_text(f.content)))
    IN ls # <<>> /\ ls[1][1].k = "hdr"

\* the file the first call of clean_403_errors was made on
first_input == IF calls = 1 THEN start_file ELSE first_call.input

\* the first call has returned, and it was made on a file that holds a
\* record whose stripped title is '403 ERROR'
cleaned_once ==
    /\ op = "returned" \/ calls = 2
    /\ \E i \in 1..Len(held_records(first_input)) :
          title_stripped(held_records(first_input)[i].title) = Denied

clean_twice ==
    /\ cleaned_once =>
          LET left == IF calls = 1 THEN file ELSE first_call.left
          IN /\ headed(left)
             /\ held_records(left)
                  = SelectSeq(held_records(first_input),
                              LAMBDA r : title_stripped(r.title) # Denied)
    /\ calls = 2 =>
          /\ file = first_call.left
          /\ copies = first_call.copies
          /\ rewrites = first_call.rewrites

(***************************************************************************)
(* C35.  After clean_403_errors on a file that holds a record whose        *)
(* stripped title is '403 ERROR', the file holds the header and the        *)
(* records of the original file whose stripped title is not '403 ERROR',   *)
(* in their order; a second call of clean_403_errors leaves the file as    *)
(* it is, rewrites nothing and makes no backup copy.  (Checked under       *)
(* SpecClean.)                                                             *)
(***************************************************************************)
C35_CleanedOnceAndForAll == clean_twice

\* the same, for the files that begin with the header line
CleanedOnceAndForAllUnderHeader == headed(first_input) => clean_twice

\* a file with the header, a valid record and a denied one whose title has
\* blanks around it has been cleaned, with a copy, and the second call has
\* returned
CleanedTwice ==
    /\ calls = 2
    /\ op = "returned"
    /\ headed(first_call.input)
    /\ first_call.copies = 1
    /\ first_call.rewrites = 1
    /\ held_records(first_call.input)
         = <<[url |-> <<-1, 1>>, title |-> "Cleaner"],
             [url |-> <<-1, 2>>, title |-> DeniedPadded]>>
    /\ held_records(file) = <<[url |-> <<-1, 1>>, title |-> "Cleaner"]>>
====
